---- MODULE Spec2Model ----
(***************************************************************************)
(* The multi-client streaming transcription gateway of                     *)
(* src/src/google_meet_bot/stream.py: the ConnectionManager registry, the  *)
(* per-connection WebSocket handler (one step per stretch of code between  *)
(* two awaits), and the management endpoints that touch the same state.    *)
(***************************************************************************)
EXTENDS Integers, Sequences, FiniteSets, TLC

\* ------------------------------------------------------------------ bounds
NumHandlers == 2        \* WebSocket connections open at the same time
MaxConnects == 3        \* WebSocket connections opened in one behaviour
MaxEvents == 2          \* audio chunks, bad messages and management calls
                        \* in one behaviour
MaxAudio == 2           \* chunks read from the audio stream of one call
MaxResponses == 2       \* responses read from the RPC of one call
MaxAlternatives == 2    \* alternatives in one section of a response
MaxLog == 3             \* entries of a result log given to the transcript
                        \* query

\* Python's None, for Optional[int] values (channels are never negative:
\* an explicit channel passes str.isdigit()).
None == -1

\* Text between "ch" and "-" in a chunk id that int() rejects.
NotANumber == -2

Sessions == {"s1", "s2"}
Handlers == 1 .. NumHandlers
\* the channel query parameter: absent, or an explicit channel
ReqChannels == {None, 1, 2}
\* chunk_id values a client may put in an audio_chunk message (None: absent)
OrigChunkIds == {"a"}

\* dict.get on a key that is absent (None where the value is a string)
Missing == "<missing>"

\* sample_rate of a request built without a sample_rate parameter
DefaultSampleRate == 16000

\* The query strings clients connect with, apart from the channel: no
\* parameter at all, or every parameter given.
NoQuery == [provider |-> Missing, language |-> Missing,
            enable_diarization |-> Missing, sample_rate |-> Missing]
QueryParams ==
    {NoQuery,
     [provider |-> "yandex_v3", language |-> "en-US",
      enable_diarization |-> "False", sample_rate |-> "8000"]}

\* The audio_chunk messages clients send: hex audio under the current field
\* name with or without a chunk id, and the messages that carry no audio
\* (field absent or empty, under either name) or audio that is not hex.
AudioMessages ==
    [type : {"audio_chunk"}, audio_data : {"00"}, audio_bytes : {Missing},
     chunk_id : OrigChunkIds \cup {""}, is_final : BOOLEAN]
    \cup
    [type : {"audio_chunk"}, audio_data : {Missing, "", "zz"}, audio_bytes : {Missing},
     chunk_id : {""}, is_final : BOOLEAN]
    \cup
    [type : {"audio_chunk"}, audio_data : {Missing}, audio_bytes : {""},
     chunk_id : {""}, is_final : BOOLEAN]

\* the audio_chunk messages with audio that are not final
DataMessages ==
    {m \in AudioMessages : m.audio_data = "00" /\ ~m.is_final}

\* format_type values of the transcript query
Formats == {"text", "json", "xml"}

\* text received on the socket that json.loads rejects
NotJson == [type |-> "<not json>", audio_data |-> Missing, audio_bytes |-> Missing,
            chunk_id |-> "", is_final |-> FALSE]
\* {"type": "ping"}
PingMessage == [type |-> "ping", audio_data |-> Missing, audio_bytes |-> Missing,
                chunk_id |-> "", is_final |-> FALSE]
\* nothing received yet
NoMessage == [type |-> "", audio_data |-> Missing, audio_bytes |-> Missing,
              chunk_id |-> "", is_final |-> FALSE]

VARIABLES
    active_connections,     \* session -> (client_id -> websocket)
    client_channels,        \* session -> (client_id -> channel)
    chunk_channel_map,      \* session -> (chunk_id -> channel)
    transcription_sessions, \* session -> [status, chunks_processed]
    session_results,        \* session -> list of recorded results
    services,               \* session -> adapter registered for the session
    pc,                     \* handler -> where the coroutine is suspended
    hs,                     \* handler -> session_id of the URL
    req,                    \* handler -> channel query parameter
    client_id,              \* handler -> client_id returned by connect
    client_channel,         \* handler -> client_channel local
    session_already_ended,  \* handler -> the handler's local flag
    params,                 \* handler -> provider, language, ... of its query
    message,                \* handler -> messages received, and the last one
    forwarded,              \* session -> chunks passed to process_audio_chunk
    raced,                  \* handler -> handlers its connect overtook in accept
    bcast,                  \* session -> the result broadcast in progress
    notice,                 \* handler -> its session_ended broadcast in progress
    reply,                  \* the last response of the transcript endpoint
    errors_received,        \* handler -> "error" messages sent to its socket
    pongs_received,         \* handler -> "pong" messages sent to its socket
    rpc,                    \* one run of the v3 service's recognize_stream
    urls,                   \* the session ids clients and callers use
    connects,               \* connections opened so far
    events,                 \* chunks, bad messages and management calls so far
    mic,                    \* session -> the microphone task's own adapter
    calls,                  \* session -> counts of calls made on adapters
    hist                    \* session -> what has happened (connect history)

vars == <<active_connections, client_channels, chunk_channel_map,
          transcription_sessions, session_results, services, pc, hs, req, client_id,
          client_channel, session_already_ended, params, message, forwarded,
          raced, bcast, notice, reply,
          errors_received, pongs_received, rpc, urls, connects, events, mic, calls, hist>>

\* ------------------------------------------------------------ dict helpers
Put(f, k, v) == [x \in (DOMAIN f) \cup {k} |-> IF x = k THEN v ELSE f[x]]
Pop(f, k) == [x \in (DOMAIN f) \ {k} |-> f[x]]
Values(f) == {f[x] : x \in DOMAIN f}
EmptyDict == [x \in {} |-> None]
\* dict.get(k, {}) on a dict of dicts
GetDict(f, k) == IF k \in DOMAIN f THEN f[k] ELSE EmptyDict

\* ------------------------------------------------- ConnectionManager (pure)
\* connect, lines 60-63: ch = 1; while ch in used: ch += 1
RECURSIVE NextFree(_, _)
NextFree(ch, used) == IF ch \in used THEN NextFree(ch + 1, used) ELSE ch

SmallestUnusedFromTwo(used) == NextFree(2, used)

OnePastLargest(used) ==
    IF used = {} THEN 1 ELSE (CHOOSE c \in used : \A d \in used : d <= c) + 1

SmallestUnusedStale(used) == NextFree(1, {})

SmallestUnused(used) == NextFree(1, used)

\* A fresh transcription_sessions entry (connect, lines 45-49).
NewSessionInfo == [status |-> "connected", chunks_processed |-> 0]

\* ConnectionManager.connect after `await websocket.accept()`: the registry
\* it leaves behind and the client_id it returns.
connect(ac, cc, cm, ts, sr, ws, s, channel) ==
    LET fresh == s \notin DOMAIN ac
        ac1 == IF fresh THEN Put(ac, s, EmptyDict) ELSE ac
        cc1 == IF fresh THEN Put(cc, s, EmptyDict) ELSE cc
        cm1 == IF fresh THEN Put(cm, s, EmptyDict) ELSE cm
        ts1 == IF s \notin DOMAIN ts THEN Put(ts, s, NewSessionInfo) ELSE ts
        sr1 == IF s \notin DOMAIN sr THEN Put(sr, s, <<>>) ELSE sr
        next_idx == Cardinality(DOMAIN ac1[s]) + 1
        cid == next_idx
        ch == IF channel = None THEN SmallestUnused(Values(cc1[s])) ELSE channel
    IN  [ac |-> Put(ac1, s, Put(ac1[s], cid, ws)),
         cc |-> Put(cc1, s, Put(cc1[s], cid, ch)),
         cm |-> cm1,
         ts |-> ts1,
         sr |-> sr1,
         client_id |-> cid]

disconnect_all_sessions(ac, cc, s, cid) ==
    [ac |-> EmptyDict, cc |-> EmptyDict]

disconnect_whole_session(ac, cc, s, cid) ==
    [ac |-> Pop(ac, s), cc |-> Pop(cc, s)]

\* ConnectionManager.disconnect: one client (cid given) or the whole session.
disconnect(ac, cc, s, cid) ==
    IF cid # None
    THEN LET ac1 == IF s \in DOMAIN ac THEN Put(ac, s, Pop(ac[s], cid)) ELSE ac
             cc1 == IF s \in DOMAIN cc THEN Put(cc, s, Pop(cc[s], cid)) ELSE cc
             empty == s \in DOMAIN ac1 /\ DOMAIN ac1[s] = {}
         IN  [ac |-> IF empty THEN Pop(ac1, s) ELSE ac1,
              cc |-> IF empty THEN Pop(cc1, s) ELSE cc1]
    ELSE [ac |-> Pop(ac, s), cc |-> Pop(cc, s)]

get_client_channel(cc, s, cid) ==
    LET d == GetDict(cc, s) IN IF cid \in DOMAIN d THEN d[cid] ELSE None

map_chunk_channel(cm, s, chunk_id, channel) ==
    Put(cm, s, Put(GetDict(cm, s), chunk_id, channel))

resolve_channel_for_chunk(cm, s, chunk_id) ==
    LET d == GetDict(cm, s) IN IF chunk_id \in DOMAIN d THEN d[chunk_id] ELSE None

has_active_clients(ac, s) == DOMAIN GetDict(ac, s) # {}

\* f"ch{client_channel}-{orig_chunk_id or generated}" with
\* generated = f"{session_id}_{chunks_processed + 1}", as token sequences.
add_transcription_result(sr, s, result) ==
    Put(sr, s, Append(IF s \in DOMAIN sr THEN sr[s] ELSE <<>>, result))

\* str.strip() on the texts a result may carry
Strip(text) == IF text = " " THEN "" ELSE text

\* result_callback, lines 250-257: the channel embedded in a chunk id of the
\* form ch<N>-<rest>, None when the id has no such prefix.
PrefixChannel(chunk_id) ==
    IF /\ Len(chunk_id) >= 3 /\ chunk_id[1] = "ch" /\ chunk_id[3] = "-"
       /\ chunk_id[2] # NotANumber
    THEN chunk_id[2] ELSE None

\* The speaker taken from the session's chunk-channel map alone.
SpeakerFromMap(cm, s, chunk_id) ==
    LET ch == resolve_channel_for_chunk(cm, s, chunk_id)
    IN  IF ch # None THEN <<"channel_", ch>> ELSE <<>>

\* result_callback, lines 248-261: the speaker of a result without a
\* provider speaker id (<<>> stands for None).
SpeakerFor(cm, s, chunk_id) ==
    LET pre == PrefixChannel(chunk_id)
        ch == IF pre # None THEN pre ELSE resolve_channel_for_chunk(cm, s, chunk_id)
    IN  IF ch # None THEN <<"channel_", ch>> ELSE <<>>

\* result_callback, lines 273-281: the transcription_result message built
\* for a result.
StreamTranscriptionResponse(cm, s, result) ==
    [chunk_id |-> result.chunk_id, text |-> Strip(result.text),
     is_final |-> result.is_final,
     speaker_id |-> SpeakerFor(cm, s, result.chunk_id)]

\* The callback recording every result, blank or not.
result_callback_unfiltered(sr, cm, s, result) ==
    add_transcription_result(sr, s,
        [chunk_id |-> result.chunk_id, text |-> Strip(result.text),
         is_final |-> result.is_final,
         speaker_id |-> SpeakerFor(cm, s, result.chunk_id)])

\* result_callback: the result log after the callback ran on `result`; a
\* result whose stripped text is empty is skipped.
result_callback(sr, cm, s, result) ==
    LET text == Strip(result.text)
    IN  IF text = "" THEN sr
        ELSE add_transcription_result(sr, s,
                 [chunk_id |-> result.chunk_id, text |-> text,
                  is_final |-> result.is_final,
                  speaker_id |-> SpeakerFor(cm, s, result.chunk_id)])

\* The record recognize_stream yields on grpc.RpcError
\* (yandex_speechkit_v3_service.py, lines 192-199): no text, no chunk id.
ErrorRecord == [type |-> "error", text |-> "", chunk_id |-> <<>>, is_final |-> FALSE]

GeneratedId(s, n) == <<s, "_", n + 1>>
NewChunkIdUnprefixed(channel, orig, s, n) ==
    IF orig # "" THEN <<orig>> ELSE GeneratedId(s, n)

NewChunkId(channel, orig, s, n) ==
    <<"ch", channel, "-">> \o (IF orig # "" THEN <<orig>> ELSE GeneratedId(s, n))

get_session_results_all(sr, s, include_partial) ==
    IF s \notin DOMAIN sr THEN [found |-> FALSE, results |-> <<>>]
    ELSE [found |-> TRUE, results |-> sr[s]]

\* get_session_results: found is FALSE where Python returns None.
get_session_results(sr, s, include_partial) ==
    IF s \notin DOMAIN sr THEN [found |-> FALSE, results |-> <<>>]
    ELSE [found |-> TRUE,
          results |-> IF include_partial THEN sr[s]
                      ELSE SelectSeq(sr[s], LAMBDA r : r.is_final)]

\* " ".join(texts), a string as the sequence of its parts
RECURSIVE Join(_)
Join(texts) ==
    IF Len(texts) = 0 THEN <<>>
    ELSE IF Len(texts) = 1 THEN <<texts[1]>>
    ELSE <<texts[1], " ">> \o Join(Tail(texts))

\* get_session_transcript: none is TRUE where Python returns None; the text
\* format fills text, the json format dumps the results themselves.
get_session_transcript(sr, s, format_type) ==
    LET got == get_session_results(sr, s, FALSE)
        results == got.results
        nothing == [none |-> TRUE, text |-> <<>>, json |-> <<>>]
    IN  IF ~got.found \/ results = <<>> THEN nothing
        ELSE IF format_type = "text"
        THEN LET with_text == SelectSeq(results, LAMBDA r : r.text # "")
             IN  [none |-> FALSE,
                  text |-> Join([i \in 1 .. Len(with_text) |-> with_text[i].text]),
                  json |-> <<>>]
        ELSE IF format_type = "json"
        THEN [none |-> FALSE, text |-> <<>>, json |-> results]
        ELSE nothing

\* GET /sessions/{s}/transcript: 404 when the manager returns None.
transcript_endpoint(sr, s, format_type) ==
    LET transcript == get_session_transcript(sr, s, format_type)
    IN  IF transcript.none
        THEN [status |-> 404, session_id |-> s, format |-> format_type,
              transcript |-> <<>>, json |-> <<>>]
        ELSE [status |-> 200, session_id |-> s, format |-> format_type,
              transcript |-> transcript.text, json |-> transcript.json]

\* f"ch{client_channel}-final_{session_id}"
FinalChunkId(channel, s) == <<"ch", channel, "-", "final_", s>>

\* ------------------------------------------- the endpoint's pure helpers
\* Python's `a or b` on Optional[str]
PyOr(a, b) == IF a \notin {Missing, ""} THEN a ELSE b

\* str.isdigit() and int() on the sample_rate values in use
IsDigit(x) == x \in {"8000", "16000"}
ToInt(x) == CASE x = "8000" -> 8000 [] x = "16000" -> 16000

\* str(x).lower() on the enable_diarization values in use
Lower(x) == CASE x = "True" -> "true" [] x = "False" -> "false" [] OTHER -> x

\* The handler's locals provider, language, enable_diarization and
\* sample_rate, read from the query parameters (lines 194-202).
ParseQuery(q) ==
    LET provider == IF q.provider = Missing THEN "yandex" ELSE q.provider
        enable_diarization ==
            IF q.enable_diarization = Missing THEN "true" ELSE q.enable_diarization
    IN  [provider |-> IF provider = "yandex_v3" THEN "yandex" ELSE provider,
         language |-> IF q.language = Missing THEN "ru-RU" ELSE q.language,
         enable_diarization |-> Lower(enable_diarization) = "true",
         sample_rate |-> IF q.sample_rate \notin {Missing, ""} /\ IsDigit(q.sample_rate)
                         THEN ToInt(q.sample_rate) ELSE None]

\* StreamTranscriptionRequest(...) built from the handler's locals
TranscriptionRequest(p) ==
    [provider |-> p.provider, language |-> p.language,
     enable_diarization |-> p.enable_diarization,
     sample_rate |-> IF p.sample_rate # None THEN p.sample_rate ELSE DefaultSampleRate]

\* bytes.fromhex on the audio values in use; "zz" raises ValueError
IsHex(x) == x \in {"", "00"}
FromHex(x) == IF x = "00" THEN <<0>> ELSE <<>>

\* StreamChunk(chunk_id, audio_data, is_final) together with the request
\* process_audio_chunk is called with
Chunk(chunk_id, audio, is_final, request) ==
    [chunk_id |-> chunk_id, audio_data |-> audio, is_final |-> is_final,
     request |-> request]

\* ------------------------------------------------------------------- Init
NewAdapter == [started |-> FALSE, ended |-> FALSE]
NoParams == [provider |-> "", language |-> "", enable_diarization |-> FALSE,
             sample_rate |-> None]
NoReply == [status |-> 0, session_id |-> "", format |-> "",
            transcript |-> <<>>, json |-> <<>>]
\* No broadcast in progress. A broadcast holds the size and content of the
\* connection dict when its loop began (n, start), the keys the loop has
\* passed (visited), the sockets its sends reached and failed to reach,
\* whether the session's connection set changed meanwhile (intact) and, when
\* the session was popped from active_connections meanwhile, the dict object
\* the loop still iterates (detached, old); payload is the message it sends.
NoPayload == [chunk_id |-> <<>>, text |-> "", is_final |-> FALSE, speaker_id |-> <<>>]
NoBroadcast == [active |-> FALSE, n |-> 0, start |-> EmptyDict, visited |-> {},
                delivered |-> {}, failed |-> {}, intact |-> TRUE,
                detached |-> FALSE, old |-> EmptyDict, payload |-> NoPayload]
\* No session_ended broadcast in progress in a handler: the size of the
\* connection dict when the loop of send_personal_message began (n), the keys
\* the loop has passed (visited), the sockets its sends reached (delivered)
\* and, when the session was popped from active_connections meanwhile, the
\* dict object the loop still iterates (detached, old).
NoNotice == [n |-> 0, visited |-> {}, delivered |-> {}, detached |-> FALSE,
             old |-> EmptyDict]
NoChunks == [count |-> 0,
             last |-> Chunk(<<>>, <<>>, FALSE, TranscriptionRequest(NoParams))]
NoCalls == [end_explicit |-> 0, end_cleanup |-> 0, end_api |-> 0]
NoHist == [plain |-> TRUE, assigned |-> <<>>, explicit_ended |-> FALSE,
           end_requests |-> 0, mic_starts |-> 0, backend_failed |-> FALSE,
           filled_gap |-> FALSE, left_data |-> FALSE]

\* recognize_stream has not been called: where the coroutine is (pc), the
\* local `channel` ("none" is None), the channels opened and the close calls
\* made, the frames request_generator has handed to the RPC and whether it
\* has finished, the records yielded to the caller and those of the current
\* response still to be yielded, the audio chunks and responses consumed so
\* far, and the failure that ended the call.
NoFailure == [kind |-> "none", code |-> "", details |-> ""]

\* The credentials of the settings, "" for one that is not configured.
NoCredentials == [yandex_api_key |-> "", yandex_iam_token |-> "",
                  yandex_folder_id |-> ""]

\* A response without alternatives in any section.
NoResponse == [partial |-> <<>>, final |-> <<>>, final_refinement |-> <<>>,
               raises |-> 0]

\* The call's settings and its sample_rate argument, the rate put in the
\* session options, the metadata built, and the response being read.
NoStream == [pc |-> "idle", channel |-> "none", opened |-> 0, closed |-> 0,
             frames |-> <<>>, generator |-> "idle", yielded |-> <<>>,
             pending |-> <<>>, audio |-> 0, responses |-> 0,
             failure |-> NoFailure,
             settings |-> NoCredentials, requested |-> 0, sample_rate |-> 0,
             metadata |-> <<>>, response |-> NoResponse]

InitWith(ids) ==
    /\ urls = ids
    /\ connects = 0
    /\ events = 0
    /\ active_connections = EmptyDict
    /\ client_channels = EmptyDict
    /\ chunk_channel_map = EmptyDict
    /\ transcription_sessions = EmptyDict
    /\ session_results = EmptyDict
    /\ services = EmptyDict
    /\ pc = [h \in Handlers |-> "idle"]
    /\ hs = [h \in Handlers |-> ""]
    /\ req = [h \in Handlers |-> None]
    /\ client_id = [h \in Handlers |-> None]
    /\ client_channel = [h \in Handlers |-> None]
    /\ session_already_ended = [h \in Handlers |-> FALSE]
    /\ params = [h \in Handlers |-> NoParams]
    /\ message = [h \in Handlers |-> [n |-> 0, last |-> NoMessage]]
    /\ forwarded = [s \in Sessions |-> NoChunks]
    /\ raced = [h \in Handlers |-> {}]
    /\ bcast = [s \in Sessions |-> NoBroadcast]
    /\ notice = [h \in Handlers |-> NoNotice]
    /\ reply = NoReply
    /\ errors_received = [h \in Handlers |-> 0]
    /\ pongs_received = [h \in Handlers |-> 0]
    /\ rpc = NoStream
    /\ mic = [s \in Sessions |-> "none"]
    /\ calls = [s \in Sessions |-> NoCalls]
    /\ hist = [s \in Sessions |-> NoHist]

\* One session id in use.
Init == InitWith({"s1"})


\* ------------------------------------------------ the WebSocket handler
registry == <<active_connections, client_channels, chunk_channel_map,
              transcription_sessions, session_results>>
locals == <<hs, req, client_id, client_channel, session_already_ended, params>>
env == <<urls, connects, mic>>

\* One more event of the bounded kind.
Event ==
    /\ events < MaxEvents
    /\ events' = events + 1


\* The connection is open: accepted, and its handler has not returned.
IsOpen(h) == pc[h] \in {"starting", "recv", "fwd", "flush", "ending", "broadcast"}

\* The socket registered under cid in session s (None when there is none):
\* self.active_connections.get(session_id, {}).get(client_id)
SocketOf(ac, s, cid) ==
    LET d == GetDict(ac, s) IN IF cid \in DOMAIN d THEN d[cid] ELSE None

\* send_personal_message(message, s, client_id=cid) with an "error" message:
\* the error counts after the send.
SendError(ac, s, cid) ==
    LET ws == SocketOf(ac, s, cid)
    IN  IF ws # None
        THEN [errors_received EXCEPT ![ws] = @ + 1]
        ELSE errors_received

\* send_personal_message(message, s, client_id=cid) with a "pong" message:
\* the pong counts after the send.
SendPong(ac, s, cid) ==
    LET ws == SocketOf(ac, s, cid)
    IN  IF ws # None
        THEN [pongs_received EXCEPT ![ws] = @ + 1]
        ELSE pongs_received

\* The broadcasts in progress after the connection dict of session s was
\* changed in place: a key that was added is ahead of the loop.
RegistryChanged(s, added) ==
    [bcast EXCEPT ![s] =
        IF @.active /\ ~@.detached
        THEN [@ EXCEPT !.intact = FALSE, !.visited = @ \ added]
        ELSE [@ EXCEPT !.intact = ~bcast[s].active]]

\* The broadcasts in progress after session s was popped from
\* active_connections: the loop goes on over the dict object it began with,
\* whose content is now `kept`.
SessionPopped(s, kept) ==
    [bcast EXCEPT ![s] =
        IF @.active /\ ~@.detached
        THEN [@ EXCEPT !.intact = FALSE, !.detached = TRUE, !.old = kept]
        ELSE [@ EXCEPT !.intact = ~bcast[s].active]]

\* The handlers of session s that are in the loop of their session_ended
\* broadcast.
Noticing(s) == {g \in Handlers : pc[g] = "broadcast" /\ hs[g] = s}

\* The session_ended broadcasts in progress after the connection dict of
\* session s was changed in place: a key that was added is ahead of the loop.
NoticeChanged(s, added) ==
    [g \in Handlers |->
        IF g \in Noticing(s) /\ ~notice[g].detached
        THEN [notice[g] EXCEPT !.visited = @ \ added]
        ELSE notice[g]]

\* The session_ended broadcasts in progress after session s was popped from
\* active_connections: each loop goes on over the dict object it began with,
\* whose content is now `kept`.
NoticePopped(s, kept) ==
    [g \in Handlers |->
        IF g \in Noticing(s) /\ ~notice[g].detached
        THEN [notice[g] EXCEPT !.detached = TRUE, !.old = kept]
        ELSE notice[g]]

\* The dict object the session_ended loop of handler h iterates, as it is
\* now, the keys still ahead of the loop, and whether the dict's size differs
\* from the size at the start of the loop (the iterator's next step raises
\* RuntimeError, which send_personal_message logs).
NoticeDict(h) ==
    IF notice[h].detached THEN notice[h].old
    ELSE GetDict(active_connections, hs[h])

NoticePending(h) == DOMAIN NoticeDict(h) \ notice[h].visited

NoticeSizeChanged(h) == Cardinality(DOMAIN NoticeDict(h)) # notice[h].n

\* The coroutine has returned: its locals are gone and the slot is free for
\* a later connection.
Return(h) ==
    /\ pc' = [pc EXCEPT ![h] = "idle"]
    /\ hs' = [hs EXCEPT ![h] = ""]
    /\ client_id' = [client_id EXCEPT ![h] = None]
    /\ client_channel' = [client_channel EXCEPT ![h] = None]
    /\ session_already_ended' = [session_already_ended EXCEPT ![h] = FALSE]
    /\ params' = [params EXCEPT ![h] = NoParams]
    /\ message' = [message EXCEPT ![h] = [n |-> 0, last |-> NoMessage]]
    /\ raced' = [g \in Handlers |-> IF g = h THEN {} ELSE raced[g] \ {h}]
    /\ errors_received' = [errors_received EXCEPT ![h] = 0]
    /\ pongs_received' = [pongs_received EXCEPT ![h] = 0]

\* A client opens /ws/{s}?channel=ch&... with the other parameters q; the
\* handler parses the query and suspends in connect at
\* `await websocket.accept()`.
Open(h, s, ch, q) ==
    /\ pc[h] = "idle"
    /\ s \in urls
    /\ connects < MaxConnects
    /\ \A g \in Handlers : g < h => pc[g] # "idle"
    /\ connects' = connects + 1
    /\ pc' = [pc EXCEPT ![h] = "accepting"]
    /\ hs' = [hs EXCEPT ![h] = s]
    /\ req' = [req EXCEPT ![h] = ch]
    /\ params' = [params EXCEPT ![h] = ParseQuery(q)]
    /\ UNCHANGED <<registry, services, client_id, client_channel,
                   session_already_ended, message, forwarded, raced, bcast, notice, reply, pongs_received, rpc,
                   errors_received, urls, events, mic, calls, hist>>

\* accept returns: the rest of connect, get_client_channel, the flag and the
\* service lookup run without an await. A new service is registered and the
\* handler suspends in its start_session; an existing one is reused and the
\* handler goes on to send connection_established and to receive.
Connect(h) ==
    /\ pc[h] = "accepting"
    /\ LET s == hs[h]
           r == connect(active_connections, client_channels, chunk_channel_map,
                        transcription_sessions, session_results, h, s, req[h])
           ch == get_client_channel(r.cc, s, r.client_id)
       IN  /\ active_connections' = r.ac
           /\ client_channels' = r.cc
           /\ chunk_channel_map' = r.cm
           /\ transcription_sessions' = r.ts
           /\ session_results' = r.sr
           /\ client_id' = [client_id EXCEPT ![h] = r.client_id]
           /\ client_channel' = [client_channel EXCEPT ![h] = ch]
           /\ session_already_ended' = [session_already_ended EXCEPT ![h] = FALSE]
           /\ req' = [req EXCEPT ![h] = None]
           /\ hist' = [hist EXCEPT ![s] =
                  [(IF @.plain /\ req[h] = None
                    THEN [@ EXCEPT !.assigned = Append(@, ch)]
                    ELSE [@ EXCEPT !.plain = FALSE, !.assigned = <<>>])
                   EXCEPT !.filled_gap =
                      \/ @
                      \/ /\ req[h] = None
                         /\ \E c \in Values(GetDict(client_channels, s)) : ch < c]]
           /\ raced' = [raced EXCEPT ![h] =
                  IF req[h] # None THEN {}
                  ELSE {g \in Handlers \ {h} :
                           pc[g] = "accepting" /\ hs[g] = s /\ req[g] = None}]
           /\ bcast' = RegistryChanged(s,
                  {r.client_id} \ DOMAIN GetDict(active_connections, s))
           /\ notice' = NoticeChanged(s,
                  {r.client_id} \ DOMAIN GetDict(active_connections, s))
           /\ IF s \notin DOMAIN services
              THEN /\ services' = Put(services, s,
                           NewAdapter @@ [request |-> TranscriptionRequest(params[h])])
                   /\ pc' = [pc EXCEPT ![h] = "starting"]
              ELSE /\ services' = services
                   /\ pc' = [pc EXCEPT ![h] = "recv"]
    /\ UNCHANGED <<hs, params, message, forwarded, reply, pongs_received, rpc, errors_received, env,
                   events, calls>>

\* start_session returns to the handler that created the service, which
\* sends connection_established and goes on to receive.
StartSession(h) ==
    /\ pc[h] = "starting"
    /\ services' = [services EXCEPT ![hs[h]].started = TRUE]
    /\ pc' = [pc EXCEPT ![h] = "recv"]
    /\ UNCHANGED <<registry, locals, message, forwarded, raced, bcast, notice, reply, pongs_received, rpc,
                   errors_received, env, events, calls, hist>>

\* process_audio_chunk(chunk, request, session_id) is called on the
\* session's service.
Forward(s, chunk) ==
    [forwarded EXCEPT ![s] = [count |-> @.count + 1, last |-> chunk]]

\* The handler has read one more message from its socket.
Receive(h, msg) ==
    message' = [message EXCEPT ![h] = [n |-> @.n + 1, last |-> msg]]

\* An audio_chunk message. With audio (either field name) the chunk id is
\* built and mapped and the handler suspends in process_audio_chunk; audio
\* that is not hex raises before that, and the error goes to the sender's
\* client_id. Without audio a final message is forwarded as an empty final
\* chunk and any other is only logged.
AudioChunk(h, msg) ==
    /\ pc[h] = "recv"
    /\ Event
    /\ hs[h] \in DOMAIN services
    /\ Receive(h, msg)
    /\ LET s == hs[h]
           raw_audio_hex == PyOr(msg.audio_data, msg.audio_bytes)
           n == transcription_sessions[s].chunks_processed
           new_chunk_id == NewChunkId(client_channel[h], msg.chunk_id, s, n)
           final_chunk_id == FinalChunkId(client_channel[h], s)
           request == TranscriptionRequest(params[h])
       IN  CASE raw_audio_hex # Missing /\ ~IsHex(raw_audio_hex) ->
                    /\ errors_received' = SendError(active_connections, s, client_id[h])
                    /\ UNCHANGED <<chunk_channel_map, forwarded, pc>>
             [] raw_audio_hex # Missing /\ IsHex(raw_audio_hex) ->
                    /\ chunk_channel_map' = map_chunk_channel(
                           chunk_channel_map, s, new_chunk_id, client_channel[h])
                    /\ forwarded' = Forward(s, Chunk(new_chunk_id,
                           FromHex(raw_audio_hex), msg.is_final, request))
                    /\ pc' = [pc EXCEPT ![h] = "fwd"]
                    /\ UNCHANGED errors_received
             [] raw_audio_hex = Missing /\ msg.is_final ->
                    /\ chunk_channel_map' = map_chunk_channel(
                           chunk_channel_map, s, final_chunk_id, client_channel[h])
                    /\ forwarded' = Forward(s, Chunk(final_chunk_id, <<>>, TRUE, request))
                    /\ pc' = [pc EXCEPT ![h] = "flush"]
                    /\ UNCHANGED errors_received
             [] OTHER ->
                    UNCHANGED <<chunk_channel_map, forwarded, pc, errors_received>>
    /\ UNCHANGED <<active_connections, client_channels, transcription_sessions,
                   session_results, services, locals, raced, bcast, notice, reply, pongs_received, rpc, env,
                   calls, hist>>

\* process_audio_chunk returns: the processed-chunk counter is incremented.
ChunkDone(h) ==
    /\ pc[h] = "fwd"
    /\ transcription_sessions' =
           [transcription_sessions EXCEPT ![hs[h]].chunks_processed = @ + 1]
    /\ pc' = [pc EXCEPT ![h] = "recv"]
    /\ UNCHANGED <<active_connections, client_channels, chunk_channel_map,
                   session_results, services, locals, message, forwarded, raced,
                   bcast, notice, reply, pongs_received, rpc, errors_received, env, events, calls, hist>>

\* process_audio_chunk returns from the final empty chunk: nothing is counted.
FlushDone(h) ==
    /\ pc[h] = "flush"
    /\ pc' = [pc EXCEPT ![h] = "recv"]
    /\ UNCHANGED <<registry, services, locals, message, forwarded, raced, bcast, notice,
                   reply, pongs_received, rpc, errors_received, env, events, calls, hist>>

\* A message that is not JSON: an error message goes to the sender's
\* client_id and the loop continues.
InvalidJson(h) ==
    /\ pc[h] = "recv"
    /\ Event
    /\ Receive(h, NotJson)
    /\ errors_received' = SendError(active_connections, hs[h], client_id[h])
    /\ UNCHANGED <<registry, services, pc, locals, forwarded, raced, bcast, notice,
                   reply, pongs_received, rpc, env, calls, hist>>

\* A ping message: a pong goes to the sender's client_id and the loop
\* continues.
Ping(h) ==
    /\ pc[h] = "recv"
    /\ Event
    /\ Receive(h, PingMessage)
    /\ pongs_received' = SendPong(active_connections, hs[h], client_id[h])
    /\ UNCHANGED <<registry, services, pc, locals, forwarded, raced, bcast, notice,
                   reply, errors_received, rpc, env, calls, hist>>

\* Session s has results in its log and chunks in its chunk map.
HasData(s) ==
    /\ s \in DOMAIN session_results
    /\ session_results[s] # <<>>
    /\ DOMAIN GetDict(chunk_channel_map, s) # {}

\* The handler's finally block: deregister, then the cleanup shutdown when
\* the local flag is unset and the session has no client left.
Finally(h, flag) ==
    LET s == hs[h]
        d == disconnect(active_connections, client_channels, s, client_id[h])
        cleanup == ~flag /\ ~has_active_clients(d.ac, s) /\ s \in DOMAIN services
    IN  /\ active_connections' = d.ac
        /\ client_channels' = d.cc
        /\ services' = IF cleanup THEN [services EXCEPT ![s].ended = TRUE]
                       ELSE services
        /\ calls' = IF cleanup THEN [calls EXCEPT ![s].end_cleanup = @ + 1]
                    ELSE calls
        /\ bcast' = IF s \in DOMAIN active_connections /\ s \notin DOMAIN d.ac
                    THEN SessionPopped(s, EmptyDict)
                    ELSE IF d.ac # active_connections
                    THEN RegistryChanged(s, {})
                    ELSE bcast
        /\ notice' = [(IF s \in DOMAIN active_connections /\ s \notin DOMAIN d.ac
                       THEN NoticePopped(s, EmptyDict)
                       ELSE notice) EXCEPT ![h] = NoNotice]
        /\ Return(h)

\* send_personal_message without a client_id begins: the loop over the
\* values of the session's connection dict (an empty dict when the session
\* has none) sends session_ended to the socket under its first key (keys are
\* taken in any order), in which the handler suspends; the send reaches a
\* connection that is open and raises on any other, which is logged.
BeginNotice(h) ==
    LET s == hs[h]
        dict == GetDict(active_connections, s)
    IN  IF DOMAIN dict = {}
        THEN notice' = [notice EXCEPT ![h] =
                 [NoNotice EXCEPT !.detached = s \notin DOMAIN active_connections]]
        ELSE \E cid \in DOMAIN dict :
                 notice' = [notice EXCEPT ![h] =
                     [NoNotice EXCEPT
                         !.n = Cardinality(DOMAIN dict),
                         !.visited = {cid},
                         !.delivered = {ws \in {dict[cid]} : IsOpen(ws)}]]

\* An end_session message: the session's service is looked up and its
\* end_session is called, in which the handler suspends; without a service
\* the handler goes straight to the broadcast.
EndSessionMsg(h) ==
    /\ pc[h] = "recv"
    /\ LET s == hs[h]
       IN  IF s \in DOMAIN services
           THEN /\ services' = [services EXCEPT ![s].ended = TRUE]
                /\ calls' = [calls EXCEPT ![s].end_explicit = @ + 1]
                /\ hist' = [hist EXCEPT ![s].end_requests = @ + 1]
                /\ pc' = [pc EXCEPT ![h] = "ending"]
                /\ notice' = notice
           ELSE /\ pc' = [pc EXCEPT ![h] = "broadcast"]
                /\ BeginNotice(h)
                /\ UNCHANGED <<services, calls, hist>>
    /\ UNCHANGED <<registry, locals, message, forwarded, raced, bcast, reply, pongs_received, rpc,
                   errors_received, env, events>>

\* end_session returns: the handler sets its flag and begins the
\* broadcast of session_ended, suspended in its first send.
EndSessionFinish(h) ==
    /\ pc[h] = "ending"
    /\ session_already_ended' = [session_already_ended EXCEPT ![h] = TRUE]
    /\ hist' = [hist EXCEPT ![hs[h]].explicit_ended = TRUE]
    /\ pc' = [pc EXCEPT ![h] = "broadcast"]
    /\ BeginNotice(h)
    /\ UNCHANGED <<registry, services, hs, req, client_id, client_channel,
                   params, message, forwarded, raced, bcast, reply, pongs_received, rpc,
                   errors_received, env, events, calls>>

\* One more turn of the session_ended loop: the message is sent to the socket
\* under the next key.
SessionEndedSend(h, cid) ==
    /\ pc[h] = "broadcast"
    /\ ~NoticeSizeChanged(h)
    /\ cid \in NoticePending(h)
    /\ LET ws == NoticeDict(h)[cid]
       IN  notice' = [notice EXCEPT ![h] =
               [@ EXCEPT !.visited = @ \cup {cid},
                         !.delivered = @ \cup {w \in {ws} : IsOpen(w)}]]
    /\ UNCHANGED <<registry, services, pc, locals, message, forwarded, raced,
                   bcast, reply, pongs_received, rpc, errors_received, env, events,
                   calls, hist>>

\* The broadcast is over, at the end of the dict or on the RuntimeError of a
\* dict that changed size: the loop breaks and the finally block runs.
EndSessionClose(h) ==
    /\ pc[h] = "broadcast"
    /\ NoticeSizeChanged(h) \/ NoticePending(h) = {}
    /\ Finally(h, session_already_ended[h])
    /\ hist' = [hist EXCEPT ![hs[h]].plain = FALSE, ![hs[h]].assigned = <<>>,
                            ![hs[h]].left_data = @ \/ HasData(hs[h])]
    /\ UNCHANGED <<chunk_channel_map, transcription_sessions, session_results,
                   req, forwarded, reply, rpc, env, events>>

\* The client goes away: receive_text raises WebSocketDisconnect and the
\* finally block runs.
Drop(h) ==
    /\ pc[h] = "recv"
    /\ Finally(h, session_already_ended[h])
    /\ hist' = [hist EXCEPT ![hs[h]].plain = FALSE, ![hs[h]].assigned = <<>>,
                            ![hs[h]].left_data = @ \/ HasData(hs[h])]
    /\ UNCHANGED <<chunk_channel_map, transcription_sessions, session_results,
                   req, forwarded, reply, rpc, env, events>>

\* ------------------------------------------------- management endpoints
\* POST /end_session/{s}: a no-op without a registered service.
end_stream_session(s) ==
    /\ Event
    /\ IF s \in DOMAIN services
       THEN /\ services' = [services EXCEPT ![s].ended = TRUE]
            /\ calls' = [calls EXCEPT ![s].end_api = @ + 1]
            /\ hist' = [hist EXCEPT ![s].end_requests = @ + 1]
       ELSE UNCHANGED <<services, calls, hist>>
    /\ UNCHANGED <<registry, pc, locals, message, forwarded, raced, bcast, notice, reply, pongs_received, rpc,
                   errors_received, env>>

\* POST /microphone/start/{s}: a connected or recording session is
\* disconnected as a whole; when the recorder starts (ok) the session entry
\* is replaced, a service of the task's own is created and the task is
\* scheduled.
start_microphone_recording(s, ok) ==
    /\ Event
    /\ mic[s] \in {"none", "ended"}
    /\ LET stop == s \in DOMAIN transcription_sessions
                   /\ transcription_sessions[s].status \in {"recording", "connected"}
           d == IF stop THEN disconnect(active_connections, client_channels, s, None)
                ELSE [ac |-> active_connections, cc |-> client_channels]
       IN  /\ active_connections' = d.ac
           /\ client_channels' = d.cc
           /\ bcast' = IF stop /\ s \in DOMAIN active_connections
                       THEN SessionPopped(s, active_connections[s])
                       ELSE bcast
           /\ notice' = IF stop /\ s \in DOMAIN active_connections
                        THEN NoticePopped(s, active_connections[s])
                        ELSE notice
           /\ hist' = [hist EXCEPT ![s].mic_starts = @ + 1,
                                   ![s].left_data = @ \/ (stop /\ HasData(s)),
                                   ![s].plain = IF stop THEN FALSE ELSE @,
                                   ![s].assigned = IF stop THEN <<>> ELSE @]
    /\ IF ok
       THEN /\ transcription_sessions' = Put(transcription_sessions, s,
                    [status |-> "recording", chunks_processed |-> 0])
            /\ session_results' = Put(session_results, s, <<>>)
            /\ mic' = [mic EXCEPT ![s] = "created"]
       ELSE UNCHANGED <<transcription_sessions, session_results, mic>>
    /\ UNCHANGED <<chunk_channel_map, services, pc, locals, message, forwarded,
                   raced, reply, pongs_received, rpc, errors_received, urls, connects, calls>>

\* _process_microphone_audio: start_session on the task's service.
MicTaskStart(s) ==
    /\ mic[s] = "created"
    /\ mic' = [mic EXCEPT ![s] = "started"]
    /\ UNCHANGED <<registry, services, pc, locals, message, forwarded, raced,
                   bcast, notice, reply, pongs_received, rpc, errors_received, urls, connects, events, calls, hist>>

\* _process_microphone_audio: the recording is over; end_session on the
\* task's service (finally).
MicTaskEnd(s) ==
    /\ mic[s] = "started"
    /\ mic' = [mic EXCEPT ![s] = "ended"]
    /\ UNCHANGED <<registry, services, pc, locals, message, forwarded, raced,
                   bcast, notice, reply, pongs_received, rpc, errors_received, urls, connects, events, calls, hist>>

\* ------------------------------------------------------ the backend side
\* The texts, finality flags and chunk ids of the results the service hands
\* to the callback: ids the session forwarded, or an id it never saw.
ResultsFor(s) ==
    [type : {"result"}, text : {"t", " "}, is_final : BOOLEAN,
     chunk_id : (DOMAIN GetDict(chunk_channel_map, s)) \cup {<<>>}]

\* the final ones of them that carry words, which are broadcast
FinalResultsFor(s) == {r \in ResultsFor(s) : Strip(r.text) # "" /\ r.is_final}

\* The dict object a broadcast's loop iterates, as it is now
IteratedDict(s) ==
    IF bcast[s].detached THEN bcast[s].old ELSE GetDict(active_connections, s)

\* the keys still ahead of the loop
Pending(s) == DOMAIN IteratedDict(s) \ bcast[s].visited

\* The dict's size differs from the size at the start of the loop: the next
\* step of the iterator raises RuntimeError.
SizeChanged(s) == Cardinality(DOMAIN IteratedDict(s)) # bcast[s].n

\* send_transcription_result, lines 153-157: the keys the loop has passed
\* after the send for key cid returned or raised; a failed send is logged
\* and the loop goes on.
LoopAbortingOnFailure(visited, keys, cid, ok) ==
    IF ok THEN visited \cup {cid} ELSE keys

LoopAfterSend(visited, keys, cid, ok) == visited \cup {cid}

\* The service invokes the registered result callback with a recognition
\* result (one call at a time for a session): a result with text is
\* recorded and the broadcast loop over the session's connections begins;
\* the callback first suspends in the send to the first socket of the
\* loop, which succeeds (ok) or raises.
Result(s, result, ok) ==
    /\ Event
    /\ s \in DOMAIN services
    /\ services[s].started
    /\ ~bcast[s].active
    /\ session_results' = result_callback(session_results, chunk_channel_map, s, result)
    /\ LET dict == GetDict(active_connections, s)
           begun == [NoBroadcast EXCEPT
                        !.active = TRUE,
                        !.n = Cardinality(DOMAIN dict),
                        !.start = dict,
                        !.detached = s \notin DOMAIN active_connections,
                        !.payload = StreamTranscriptionResponse(
                                        chunk_channel_map, s, result)]
       IN  IF Strip(result.text) = "" THEN bcast' = bcast
           ELSE IF DOMAIN dict = {} THEN bcast' = [bcast EXCEPT ![s] = begun]
           ELSE \E cid \in DOMAIN dict :
                    /\ ok => IsOpen(dict[cid])
                    /\ bcast' = [bcast EXCEPT ![s] =
                           [begun EXCEPT
                               !.visited = LoopAfterSend({}, DOMAIN dict, cid, ok),
                               !.delivered = IF ok THEN {dict[cid]} ELSE {},
                               !.failed = IF ok THEN {} ELSE {dict[cid]}]]
    /\ UNCHANGED <<active_connections, client_channels, chunk_channel_map,
                   transcription_sessions, services, pc, locals, message,
                   forwarded, raced, notice, reply, pongs_received, rpc, errors_received, urls, connects, mic,
                   calls, hist>>

\* One turn of the broadcast loop: the payload is sent to the socket under
\* the next key (keys are taken in any order); the send succeeds only on a
\* connection that is open, and may fail.
BroadcastSend(s, cid, ok) ==
    /\ bcast[s].active
    /\ ~SizeChanged(s)
    /\ cid \in Pending(s)
    /\ LET ws == IteratedDict(s)[cid]
       IN  /\ ok => IsOpen(ws)
           /\ bcast' = [bcast EXCEPT ![s] =
                  [@ EXCEPT !.visited = LoopAfterSend(@, DOMAIN IteratedDict(s), cid, ok),
                            !.delivered = IF ok THEN @ \cup {ws} ELSE @,
                            !.failed = IF ok THEN @ ELSE @ \cup {ws}]]
    /\ UNCHANGED <<registry, services, pc, locals, message, forwarded, raced,
                   notice, reply, pongs_received, rpc, errors_received, env, events, calls, hist>>

\* The loop ends, at the end of the dict or on the RuntimeError of a dict
\* that changed size, and the callback returns.
BroadcastEnd(s) ==
    /\ bcast[s].active
    /\ SizeChanged(s) \/ Pending(s) = {}
    /\ bcast' = [bcast EXCEPT ![s] = NoBroadcast]
    /\ UNCHANGED <<registry, services, pc, locals, message, forwarded, raced,
                   notice, reply, pongs_received, rpc, errors_received, env, events, calls, hist>>

\* GET /sessions/{s}/transcript?format_type=...
get_transcript(s, format_type) ==
    /\ reply' = transcript_endpoint(session_results, s, format_type)
    /\ UNCHANGED <<registry, services, pc, locals, message, forwarded, raced,
                   bcast, notice, errors_received, pongs_received, rpc, env, events,
                   calls, hist>>

\* ------------------------------------------------------ recognize_stream
\* One call of YandexSpeechKitV3Service.recognize_stream, an async
\* generator: it is suspended at every yield until its caller asks for the
\* next record or closes it.
StreamError(error, details) ==
    [type |-> "error", error |-> error, details |-> details,
     provider |-> "yandex_v3", mode |-> "streaming"]

\* The record of the `except Exception` handlers, which has no details; the
\* error text is a sequence of its parts.
PlainError(error, details) ==
    [type |-> "error", error |-> error, provider |-> "yandex_v3",
     mode |-> "streaming"]

\* An RpcError reported like any other exception, by a fixed text.
RpcErrorUncoded(code, details) == PlainError(<<"gRPC error">>, details)

\* The record of `except grpc.RpcError`: f"gRPC error: {err.code().name}"
\* kept as its two parts, and err.details().
RpcErrorRecord(code, details) == StreamError(<<"gRPC error: ", code>>, details)

Unavailable == StreamError(<<"gRPC/Protobuf not available">>, "install grpcio and protobuf")
AuthFailed == StreamError(<<"Authorization failed">>, "no api key or iam token")
ParseError == PlainError(<<"response parse error">>, "")

\* The status codes and detail messages an RpcError carries here.
Codes == {"UNAVAILABLE", "UNAUTHENTICATED"}
Details == {"d"}

\* Audio chunks: empty bytes and bytes.
AudioChunks == {<<>>, <<0>>}
ConfigFrame(sample_rate) ==
    [kind |-> "session_options", data |-> <<>>, sample_rate |-> sample_rate]
AudioFrame(chunk) == [kind |-> "chunk", data |-> chunk]

\* request_generator's loop body without the `if not chunk: continue`.
SendAudioUnfiltered(frames, chunk) == Append(frames, AudioFrame(chunk))

\* request_generator's loop body: an empty chunk is skipped, any other is
\* yielded to the RPC as an audio frame.
SendAudio(frames, chunk) ==
    IF chunk = <<>> THEN frames ELSE Append(frames, AudioFrame(chunk))

\* A response has three sections, each with a list of alternatives (none
\* when the section is absent) whose text is blank or not; reading section
\* `raises` (1 partial, 2 final, 3 final_refinement; 0 none) raises.
Texts == {" ", "t"}
Alternatives ==
    UNION {[1 .. n -> Texts] : n \in 0 .. MaxAlternatives}
Frames == [partial : Alternatives, final : Alternatives,
           final_refinement : Alternatives, raises : 0 .. 3]

\* The responses with at most one alternative.
Responses ==
    {r \in Frames : Len(r.partial) + Len(r.final) + Len(r.final_refinement) <= 1}

ResultRecord(type, text, is_final) ==
    [type |-> type, text |-> text, provider |-> "yandex_v3",
     mode |-> "streaming", is_final |-> is_final]

\* The records of one section without the `if not text.strip(): continue`.
SectionUnfiltered(type, alternatives, is_final) ==
    [i \in 1 .. Len(alternatives) |-> ResultRecord(type, alternatives[i], is_final)]

\* The records of one section: one for every alternative whose text is
\* not blank, in order.
Section(type, alternatives, is_final) ==
    LET kept == SelectSeq(alternatives, LAMBDA text : Strip(text) # "")
    IN  [i \in 1 .. Len(kept) |-> ResultRecord(type, kept[i], is_final)]

\* _process_single_response: the records of the sections in order, cut
\* short by a parse error record where reading a section raises.
process_single_response(response) ==
    LET p == Section("partial", response.partial, FALSE)
        f == Section("final", response.final, TRUE)
        r == Section("final_refinement", response.final_refinement, TRUE)
    IN  CASE response.raises = 1 -> <<ParseError>>
          [] response.raises = 2 -> p \o <<ParseError>>
          [] response.raises = 3 -> p \o f \o <<ParseError>>
          [] OTHER -> p \o f \o r

\* The finally block closes whatever the call holds, opened or not.
CloseCallsAlways(channel, closed) == closed + 1

\* The finally block: `if channel is not None: await channel.close()`.
CloseCalls(channel, closed) ==
    IF channel # "none" THEN closed + 1 ELSE closed

StreamFrame ==
    UNCHANGED <<registry, services, pc, locals, message, forwarded, raced,
                bcast, notice, reply, errors_received, pongs_received, env, events,
                calls, hist>>

\* The generator yields record and is suspended in state at.
YieldAt(record, at) ==
    [rpc EXCEPT !.yielded = Append(@, record), !.pc = at]

\* The settings a service is built with.
Settings == [yandex_api_key : {"", "k"}, yandex_iam_token : {"", "i"},
             yandex_folder_id : {"", "f"}]

Header(name, value) == [name |-> name, value |-> value]

\* _build_auth_metadata: the API key if there is one, else the IAM token
\* with the folder id if there is one, else ValueError.
build_auth_metadata(settings) ==
    CASE settings.yandex_api_key # "" ->
             [ok |-> TRUE, metadata |->
                 <<Header("authorization", <<"Api-Key ", settings.yandex_api_key>>)>>]
      [] settings.yandex_api_key = "" /\ settings.yandex_iam_token # "" ->
             [ok |-> TRUE, metadata |->
                 <<Header("authorization", <<"Bearer ", settings.yandex_iam_token>>)>>
                 \o (IF settings.yandex_folder_id # ""
                     THEN <<Header("x-folder-id", <<settings.yandex_folder_id>>)>>
                     ELSE <<>>)]
      [] OTHER -> [ok |-> FALSE, metadata |-> <<>>]

\* The sample_rate arguments of a call.
SampleRates == {0, 8000, 16000, 44100, 48000}
allowed_rates == {8000, 16000, 48000}
FallbackRate == 16000

\* The rate of the session options taken from the argument as it is.
UncheckedRate(sample_rate) == sample_rate

\* The rate of the session options: the argument if it is allowed, else
\* the fallback.
ValidRate(sample_rate) ==
    IF sample_rate \notin allowed_rates THEN FallbackRate ELSE sample_rate

\* The first __anext__: without gRPC or the protobuf classes, and without
\* credentials, one error record is yielded and the call returns; otherwise
\* the session options are built and the try block is entered with
\* channel = None.
recognize_stream(available, settings, sample_rate) ==
    /\ rpc.pc = "idle"
    /\ LET auth == build_auth_metadata(settings)
           called == [rpc EXCEPT !.settings = settings, !.requested = sample_rate]
       IN  rpc' = CASE ~available ->
                         [called EXCEPT
                             !.yielded = Append(@, Unavailable), !.pc = "early",
                             !.failure = [NoFailure EXCEPT !.kind = "unavailable"]]
                    [] available /\ ~auth.ok ->
                         [called EXCEPT
                             !.yielded = Append(@, AuthFailed), !.pc = "early",
                             !.failure = [NoFailure EXCEPT !.kind = "auth"]]
                    [] OTHER ->
                         [called EXCEPT !.pc = "connect",
                                        !.metadata = auth.metadata,
                                        !.sample_rate = ValidRate(sample_rate)]
    /\ StreamFrame

\* aio.secure_channel: it returns a channel or raises.
SecureChannel(ok) ==
    /\ rpc.pc = "connect"
    /\ rpc' = IF ok
              THEN [rpc EXCEPT !.channel = "open", !.opened = @ + 1, !.pc = "ready"]
              ELSE [YieldAt(PlainError(<<"e">>, ""), "failed") EXCEPT
                       !.failure = [NoFailure EXCEPT !.kind = "other"]]
    /\ StreamFrame

\* An RpcError is caught and reported with its code and details.
Fail(code, details) ==
    [YieldAt(RpcErrorRecord(code, details), "failed") EXCEPT
        !.failure = [kind |-> "rpc", code |-> code, details |-> details]]

\* await channel.channel_ready(), then RecognizeStreaming is called.
ChannelReady ==
    /\ rpc.pc = "ready"
    /\ rpc' = [rpc EXCEPT !.pc = "stream"]
    /\ StreamFrame

\* Opening the channel, channel_ready or the response stream raises
\* grpc.RpcError.
RpcError(code, details) ==
    /\ rpc.pc \in {"connect", "ready", "stream"}
    /\ rpc.pending = <<>>
    /\ rpc' = Fail(code, details)
    /\ StreamFrame

\* Anything else is raised inside the try block.
OtherException ==
    /\ rpc.pc \in {"ready", "stream"}
    /\ rpc.pending = <<>>
    /\ rpc' = [YieldAt(PlainError(<<"e">>, ""), "failed") EXCEPT
                  !.failure = [NoFailure EXCEPT !.kind = "other"]]
    /\ StreamFrame

\* The RPC takes the next request from request_generator: the session
\* options first, then the chunks of the audio stream until it ends.
RequestConfig ==
    /\ rpc.pc \in {"stream", "yield"}
    /\ rpc.generator = "idle"
    /\ rpc' = [rpc EXCEPT !.frames = Append(@, ConfigFrame(rpc.sample_rate)),
                          !.generator = "audio"]
    /\ StreamFrame

RequestAudio(chunk) ==
    /\ rpc.pc \in {"stream", "yield"}
    /\ rpc.generator = "audio"
    /\ rpc.audio < MaxAudio
    /\ rpc' = [rpc EXCEPT !.frames = SendAudio(@, chunk), !.audio = @ + 1]
    /\ StreamFrame

RequestEnd ==
    /\ rpc.pc \in {"stream", "yield"}
    /\ rpc.generator = "audio"
    /\ rpc' = [rpc EXCEPT !.generator = "done"]
    /\ StreamFrame

\* The next response arrives and is parsed.
Response(response) ==
    /\ rpc.pc = "stream"
    /\ rpc.pending = <<>>
    /\ rpc.responses < MaxResponses
    /\ rpc' = [rpc EXCEPT !.responses = @ + 1, !.response = response,
                          !.pending = process_single_response(response)]
    /\ StreamFrame

\* `yield parsed`.
YieldParsed ==
    /\ rpc.pc = "stream"
    /\ rpc.pending # <<>>
    /\ rpc' = [YieldAt(Head(rpc.pending), "yield") EXCEPT !.pending = Tail(@)]
    /\ StreamFrame

\* The caller asks for the next record: the loop goes on, and after an
\* error record the function runs to its end.
Resume ==
    /\ rpc.pc \in {"yield", "failed", "early"}
    /\ rpc' = [rpc EXCEPT !.pc = CASE rpc.pc = "yield" -> "stream"
                                   [] rpc.pc = "failed" -> "finally"
                                   [] OTHER -> "done"]
    /\ StreamFrame

\* The caller closes the generator where it is suspended: GeneratorExit
\* is raised at the yield and only the finally block runs.
Aclose ==
    /\ rpc.pc \in {"yield", "failed", "early"}
    /\ rpc' = [rpc EXCEPT !.pc = IF rpc.pc = "early" THEN "done" ELSE "finally",
                          !.pending = <<>>]
    /\ StreamFrame

\* The response stream ends.
Complete ==
    /\ rpc.pc = "stream"
    /\ rpc.pending = <<>>
    /\ rpc' = [rpc EXCEPT !.pc = "finally"]
    /\ StreamFrame

\* The finally block.
Finish ==
    /\ rpc.pc = "finally"
    /\ rpc' = [rpc EXCEPT !.closed = CloseCalls(rpc.channel, @), !.pc = "done"]
    /\ StreamFrame

\* Settings without credentials and with an API key.
StreamSettings ==
    {settings \in Settings : /\ settings.yandex_iam_token = ""
                             /\ settings.yandex_folder_id = ""}

NextStream ==
    \/ \E available \in BOOLEAN, settings \in StreamSettings :
           recognize_stream(available, settings, DefaultSampleRate)
    \/ \E ok \in BOOLEAN : SecureChannel(ok)
    \/ ChannelReady
    \/ \E code \in Codes, details \in Details : RpcError(code, details)
    \/ OtherException
    \/ RequestConfig
    \/ \E chunk \in AudioChunks : RequestAudio(chunk)
    \/ RequestEnd
    \/ \E response \in Responses : Response(response)
    \/ YieldParsed
    \/ Resume
    \/ Aclose
    \/ Complete
    \/ Finish

SpecStream == Init /\ [][NextStream]_vars

\* The parsing of one response of any shape on an established stream.
NextParse ==
    \/ \E settings \in StreamSettings : recognize_stream(TRUE, settings, DefaultSampleRate)
    \/ SecureChannel(TRUE)
    \/ ChannelReady
    \/ \E response \in Frames : rpc.responses = 0 /\ Response(response)
    \/ YieldParsed
    \/ Resume

SpecParse == Init /\ [][NextParse]_vars

\* Calls with every combination of credentials and every sample rate, on
\* a backend that accepts the connection and answers with results.
NextConfig ==
    \/ \E available \in BOOLEAN, settings \in Settings, sample_rate \in SampleRates :
           recognize_stream(available, settings, sample_rate)
    \/ SecureChannel(TRUE)
    \/ ChannelReady
    \/ RequestConfig
    \/ \E chunk \in AudioChunks : RequestAudio(chunk)
    \/ RequestEnd
    \/ \E response \in Responses : response.raises = 0 /\ Response(response)
    \/ YieldParsed
    \/ Resume
    \/ Complete
    \/ Finish

SpecConfig == Init /\ [][NextConfig]_vars

\* The backend RPC of a started session fails: recognize_stream yields its
\* error record, which reaches the registered result callback.
BackendFail(s) ==
    /\ s \in DOMAIN services
    /\ services[s].started
    /\ ~services[s].ended
    /\ ~hist[s].backend_failed
    /\ hist' = [hist EXCEPT ![s].backend_failed = TRUE]
    /\ session_results' = result_callback(session_results, chunk_channel_map, s, ErrorRecord)
    /\ UNCHANGED <<active_connections, client_channels, chunk_channel_map,
                   transcription_sessions, services, pc, locals, message,
                   forwarded, raced, bcast, notice, reply, pongs_received, rpc, errors_received, env, events,
                   calls>>

Next ==
    \/ \E h \in Handlers, s \in Sessions, ch \in ReqChannels, q \in QueryParams :
           Open(h, s, ch, q)
    \/ \E h \in Handlers : Connect(h)
    \/ \E h \in Handlers : StartSession(h)
    \/ \E h \in Handlers, msg \in AudioMessages : AudioChunk(h, msg)
    \/ \E h \in Handlers : ChunkDone(h)
    \/ \E h \in Handlers : FlushDone(h)
    \/ \E h \in Handlers : InvalidJson(h)
    \/ \E h \in Handlers : Ping(h)
    \/ \E h \in Handlers : EndSessionMsg(h)
    \/ \E h \in Handlers : EndSessionFinish(h)
    \/ \E h \in Handlers, cid \in 1 .. NumHandlers : SessionEndedSend(h, cid)
    \/ \E h \in Handlers : EndSessionClose(h)
    \/ \E h \in Handlers : Drop(h)
    \/ \E s \in urls : end_stream_session(s)
    \/ \E s \in urls, ok \in BOOLEAN : start_microphone_recording(s, ok)
    \/ \E s \in urls : MicTaskStart(s)
    \/ \E s \in urls : MicTaskEnd(s)
    \/ \E s \in urls, ok \in BOOLEAN : \E result \in ResultsFor(s) : Result(s, result, ok)
    \/ \E s \in urls, cid \in 1 .. NumHandlers, ok \in BOOLEAN : BroadcastSend(s, cid, ok)
    \/ \E s \in urls : BroadcastEnd(s)
    \/ \E s \in urls : BackendFail(s)
    \/ \E s \in Sessions, format_type \in Formats : get_transcript(s, format_type)
    \/ NextStream

\* The connection lifecycle alone: the operations that change a session's
\* connection set (connects, client disconnects, and the
\* microphone start, which disconnects a whole session).
NextConnections ==
    \/ \E h \in Handlers, s \in Sessions, ch \in ReqChannels : Open(h, s, ch, NoQuery)
    \/ \E h \in Handlers : Connect(h)
    \/ \E h \in Handlers : StartSession(h)
    \/ \E h \in Handlers : Drop(h)
    \/ \E s \in urls, ok \in BOOLEAN : start_microphone_recording(s, ok)

SpecConnections == Init /\ [][NextConnections]_vars

\* The WebSocket clients alone: every step of a connection's handler.
NextClients ==
    \/ \E h \in Handlers, s \in Sessions, ch \in ReqChannels : Open(h, s, ch, NoQuery)
    \/ \E h \in Handlers : Connect(h)
    \/ \E h \in Handlers : StartSession(h)
    \/ \E h \in Handlers, msg \in DataMessages : AudioChunk(h, msg)
    \/ \E h \in Handlers : ChunkDone(h)
    \/ \E h \in Handlers : InvalidJson(h)
    \/ \E h \in Handlers : EndSessionMsg(h)
    \/ \E h \in Handlers : EndSessionFinish(h)
    \/ \E h \in Handlers, cid \in 1 .. NumHandlers : SessionEndedSend(h, cid)
    \/ \E h \in Handlers : EndSessionClose(h)
    \/ \E h \in Handlers : Drop(h)

SpecClients == Init /\ [][NextClients]_vars

\* The message loop: clients that connect without a channel, with either
\* query, send every kind of audio_chunk message and malformed text, and
\* go away.
NextMessages ==
    \/ \E h \in Handlers, s \in Sessions, q \in QueryParams : Open(h, s, None, q)
    \/ \E h \in Handlers : Connect(h)
    \/ \E h \in Handlers : StartSession(h)
    \/ \E h \in Handlers, msg \in AudioMessages : AudioChunk(h, msg)
    \/ \E h \in Handlers : ChunkDone(h)
    \/ \E h \in Handlers : FlushDone(h)
    \/ \E h \in Handlers : InvalidJson(h)
    \/ \E h \in Handlers : Drop(h)

SpecMessages == Init /\ [][NextMessages]_vars

\* The result path: clients connect without a channel and go away while
\* the service delivers results, each broadcast to the session.
NextBroadcast ==
    \/ \E h \in Handlers, s \in Sessions : Open(h, s, None, NoQuery)
    \/ \E h \in Handlers : Connect(h)
    \/ \E h \in Handlers : StartSession(h)
    \/ \E h \in Handlers : Drop(h)
    \/ \E s \in urls, ok \in BOOLEAN : \E result \in FinalResultsFor(s) : Result(s, result, ok)
    \/ \E s \in urls, cid \in 1 .. NumHandlers, ok \in BOOLEAN : BroadcastSend(s, cid, ok)
    \/ \E s \in urls : BroadcastEnd(s)

SpecBroadcast == Init /\ [][NextBroadcast]_vars

\* Chunk ids the service may report that the endpoint did not build: with
\* the prefix of a channel, with a prefix that is not a number, and without
\* a prefix.
ForeignChunkIds ==
    {<<"ch", n, "-", "a">> : n \in {1, 2, NotANumber}} \cup {<<"a">>}

\* Final results with text, for any of these ids and the mapped ones.
AnyResultsFor(s) ==
    [type : {"result"}, text : {"t"}, is_final : {TRUE},
     chunk_id : (DOMAIN GetDict(chunk_channel_map, s)) \cup ForeignChunkIds]

\* The entries result_callback writes to a result log, and the logs of at
\* most MaxLog entries.
LogEntries ==
    [chunk_id : {<<>>}, text : {"t", "u"}, is_final : BOOLEAN, speaker_id : {<<>>}]
Logs == UNION {[1 .. n -> LogEntries] : n \in 0 .. MaxLog}

\* Session s1 after a client connected to it, the service delivered the
\* results of some log, and the client went away; session s2 was never
\* created.
InitLogs ==
    /\ urls = {"s1"}
    /\ connects = 1
    /\ events = 0
    /\ active_connections = EmptyDict
    /\ client_channels = EmptyDict
    /\ chunk_channel_map = Put(EmptyDict, "s1", EmptyDict)
    /\ transcription_sessions = Put(EmptyDict, "s1", NewSessionInfo)
    /\ session_results \in {Put(EmptyDict, "s1", log) : log \in Logs}
    /\ services = Put(EmptyDict, "s1",
           [started |-> TRUE, ended |-> TRUE,
            request |-> TranscriptionRequest(ParseQuery(NoQuery))])
    /\ pc = [h \in Handlers |-> "idle"]
    /\ hs = [h \in Handlers |-> ""]
    /\ req = [h \in Handlers |-> None]
    /\ client_id = [h \in Handlers |-> None]
    /\ client_channel = [h \in Handlers |-> None]
    /\ session_already_ended = [h \in Handlers |-> FALSE]
    /\ params = [h \in Handlers |-> NoParams]
    /\ message = [h \in Handlers |-> [n |-> 0, last |-> NoMessage]]
    /\ forwarded = [s \in Sessions |-> NoChunks]
    /\ raced = [h \in Handlers |-> {}]
    /\ bcast = [s \in Sessions |-> NoBroadcast]
    /\ notice = [h \in Handlers |-> NoNotice]
    /\ reply = NoReply
    /\ errors_received = [h \in Handlers |-> 0]
    /\ pongs_received = [h \in Handlers |-> 0]
    /\ rpc = NoStream
    /\ mic = [s \in Sessions |-> "none"]
    /\ calls = [s \in Sessions |->
                  IF s = "s1" THEN [NoCalls EXCEPT !.end_cleanup = 1] ELSE NoCalls]
    /\ hist = [s \in Sessions |->
                  IF s = "s1" THEN [NoHist EXCEPT !.plain = FALSE] ELSE NoHist]

\* The transcript query over the result logs.
NextQueries ==
    \E s \in Sessions, format_type \in Formats : get_transcript(s, format_type)

SpecQueries == InitLogs /\ [][NextQueries]_vars

\* Session s1 after its first client connected without parameters, sent
\* the chunk "a" and got it forwarded, and the service delivered one result
\* with text, which was broadcast to the client; the client is still
\* connected and reading. The session ids in use are ids, and opened
\* connections were accepted so far.
InitDataWith(ids, opened) ==
    LET s == "s1"
        r == connect(EmptyDict, EmptyDict, EmptyDict, EmptyDict, EmptyDict, 1, s, None)
        channel == get_client_channel(r.cc, s, r.client_id)
        msg == [type |-> "audio_chunk", audio_data |-> "00", audio_bytes |-> Missing,
                chunk_id |-> "a", is_final |-> FALSE]
        new_chunk_id == NewChunkId(channel, msg.chunk_id, s, 0)
        cm == map_chunk_channel(r.cm, s, new_chunk_id, channel)
        request == TranscriptionRequest(ParseQuery(NoQuery))
        results == [type : {"result"}, text : {"t"}, is_final : BOOLEAN,
                    chunk_id : {new_chunk_id, <<>>}]
    IN  /\ urls = ids
        /\ connects = opened
        /\ events = 0
        /\ active_connections = r.ac
        /\ client_channels = r.cc
        /\ chunk_channel_map = cm
        /\ transcription_sessions = Put(r.ts, s, [r.ts[s] EXCEPT !.chunks_processed = 1])
        /\ session_results \in {result_callback(r.sr, cm, s, result) : result \in results}
        /\ services = Put(EmptyDict, s,
               [started |-> TRUE, ended |-> FALSE, request |-> request])
        /\ pc = [h \in Handlers |-> IF h = 1 THEN "recv" ELSE "idle"]
        /\ hs = [h \in Handlers |-> IF h = 1 THEN s ELSE ""]
        /\ req = [h \in Handlers |-> None]
        /\ client_id = [h \in Handlers |-> IF h = 1 THEN r.client_id ELSE None]
        /\ client_channel = [h \in Handlers |-> IF h = 1 THEN channel ELSE None]
        /\ session_already_ended = [h \in Handlers |-> FALSE]
        /\ params = [h \in Handlers |->
                        IF h = 1 THEN ParseQuery(NoQuery) ELSE NoParams]
        /\ message = [h \in Handlers |->
                         IF h = 1 THEN [n |-> 1, last |-> msg]
                         ELSE [n |-> 0, last |-> NoMessage]]
        /\ forwarded = [x \in Sessions |->
                           IF x = s
                           THEN [count |-> 1,
                                 last |-> Chunk(new_chunk_id, FromHex(msg.audio_data),
                                                FALSE, request)]
                           ELSE NoChunks]
        /\ raced = [h \in Handlers |-> {}]
        /\ bcast = [x \in Sessions |-> NoBroadcast]
        /\ notice = [h \in Handlers |-> NoNotice]
        /\ reply = NoReply
        /\ errors_received = [h \in Handlers |-> 0]
        /\ pongs_received = [h \in Handlers |-> 0]
        /\ rpc = NoStream
        /\ mic = [x \in Sessions |-> "none"]
        /\ calls = [x \in Sessions |-> NoCalls]
        /\ hist = [x \in Sessions |->
                      IF x = s THEN [NoHist EXCEPT !.assigned = <<channel>>] ELSE NoHist]

InitData == InitDataWith({"s1"}, 1)

\* Final results with and without text arrive while clients connect
\* without a channel and go away.
NextResults ==
    \/ \E h \in Handlers, s \in Sessions : Open(h, s, None, NoQuery)
    \/ \E h \in Handlers : Connect(h)
    \/ \E h \in Handlers : StartSession(h)
    \/ \E h \in Handlers : Drop(h)
    \/ \E s \in urls, ok \in BOOLEAN : \E result \in ResultsFor(s) :
           result.is_final /\ Result(s, result, ok)
    \/ \E s \in urls, cid \in 1 .. NumHandlers, ok \in BOOLEAN : BroadcastSend(s, cid, ok)
    \/ \E s \in urls : BroadcastEnd(s)

SpecResults == Init /\ [][NextResults]_vars

\* The acknowledgement and the broadcasts: clients connect without a
\* channel, end the session or go away, while final results with text are
\* broadcast.
NextAck ==
    \/ \E h \in Handlers, s \in Sessions : Open(h, s, None, NoQuery)
    \/ \E h \in Handlers : Connect(h)
    \/ \E h \in Handlers : StartSession(h)
    \/ \E h \in Handlers : EndSessionMsg(h)
    \/ \E h \in Handlers : EndSessionFinish(h)
    \/ \E h \in Handlers, cid \in 1 .. NumHandlers : SessionEndedSend(h, cid)
    \/ \E h \in Handlers : EndSessionClose(h)
    \/ \E h \in Handlers : Drop(h)
    \/ \E s \in urls : \E result \in FinalResultsFor(s) : Result(s, result, TRUE)
    \/ \E s \in urls, cid \in 1 .. NumHandlers : BroadcastSend(s, cid, TRUE)
    \/ \E s \in urls : BroadcastEnd(s)

SpecAck == Init /\ [][NextAck]_vars

\* The speaker resolution: results arrive for a session that has a client
\* and a mapped chunk, while chunks are sent and the client goes away.
NextSpeaker ==
    \/ \E h \in Handlers, msg \in DataMessages : AudioChunk(h, msg)
    \/ \E h \in Handlers : ChunkDone(h)
    \/ \E h \in Handlers : Drop(h)
    \/ \E s \in urls : \E result \in AnyResultsFor(s) : Result(s, result, TRUE)
    \/ \E s \in urls : BroadcastEnd(s)

SpecSpeaker == InitData /\ [][NextSpeaker]_vars

\* What becomes of a session's data when its clients go: further clients
\* connect (to the adapter the session has) and disconnect, and the
\* microphone start disconnects the session as a whole.
NextSessions ==
    \/ \E h \in Handlers, s \in Sessions : Open(h, s, None, NoQuery)
    \/ \E h \in Handlers : Connect(h)
    \/ \E h \in Handlers : Drop(h)
    \/ \E s \in urls, ok \in BOOLEAN : start_microphone_recording(s, ok)

SpecSessions == InitData /\ [][NextSessions]_vars

\* The chunk path: clients connect, send audio chunks with and without a
\* chunk id, and go away.
NextChunks ==
    \/ \E h \in Handlers, s \in Sessions : Open(h, s, None, NoQuery)
    \/ \E h \in Handlers : Connect(h)
    \/ \E h \in Handlers : StartSession(h)
    \/ \E h \in Handlers, msg \in DataMessages : AudioChunk(h, msg)
    \/ \E h \in Handlers : ChunkDone(h)
    \/ \E h \in Handlers : Drop(h)

SpecChunks == Init /\ [][NextChunks]_vars

\* Keep-alive: clients connect, ping and go away.
NextPings ==
    \/ \E h \in Handlers, s \in Sessions : Open(h, s, None, NoQuery)
    \/ \E h \in Handlers : Connect(h)
    \/ \E h \in Handlers : StartSession(h)
    \/ \E h \in Handlers : Ping(h)
    \/ \E h \in Handlers : Drop(h)

SpecPings == Init /\ [][NextPings]_vars

\* Two sessions side by side, one of which has a client and data already: in
\* each, clients connect, send a chunk, end the session or go away, results
\* are recorded and broadcast, and the backend may fail.
NextTwo ==
    \/ \E h \in Handlers, s \in Sessions : Open(h, s, None, NoQuery)
    \/ \E h \in Handlers : Connect(h)
    \/ \E h \in Handlers : StartSession(h)
    \/ \E h \in Handlers, msg \in DataMessages : msg.chunk_id # "" /\ AudioChunk(h, msg)
    \/ \E h \in Handlers : ChunkDone(h)
    \/ \E h \in Handlers : EndSessionMsg(h)
    \/ \E h \in Handlers : EndSessionFinish(h)
    \/ \E h \in Handlers, cid \in 1 .. NumHandlers : SessionEndedSend(h, cid)
    \/ \E h \in Handlers : EndSessionClose(h)
    \/ \E h \in Handlers : Drop(h)
    \/ \E s \in urls : \E result \in FinalResultsFor(s) : Result(s, result, TRUE)
    \/ \E s \in urls, cid \in 1 .. NumHandlers : BroadcastSend(s, cid, TRUE)
    \/ \E s \in urls : BroadcastEnd(s)
    \/ \E s \in urls : BackendFail(s)

\* Both session ids are in use and one more connection is accepted.
InitTwo == InitDataWith(Sessions, MaxConnects - 1)

SpecTwo == InitTwo /\ [][NextTwo]_vars

\* The upstream side of a session: its adapters are started by the first
\* client and by the microphone start, ended with the last client or over
\* the API, and the backend may fail.
NextBackend ==
    \/ \E h \in Handlers, s \in Sessions : Open(h, s, None, NoQuery)
    \/ \E h \in Handlers : Connect(h)
    \/ \E h \in Handlers : StartSession(h)
    \/ \E h \in Handlers : Drop(h)
    \/ \E s \in urls : end_stream_session(s)
    \/ \E s \in urls, ok \in BOOLEAN : start_microphone_recording(s, ok)
    \/ \E s \in urls : MicTaskStart(s)
    \/ \E s \in urls : MicTaskEnd(s)
    \/ \E s \in urls : BackendFail(s)

SpecBackend == Init /\ [][NextBackend]_vars

Spec == Init /\ [][Next]_vars

\* ------------------------------------------------------------ the claims
\* The socket h is registered in its session's connection set.
Registered(ac, h) ==
    \E cid \in DOMAIN GetDict(ac, hs[h]) : ac[hs[h]][cid] = h

\* end_session calls made on the session's registered adapter
EndCalls(c) == c.end_explicit + c.end_api + c.end_cleanup

\* Adapters of session s on which start_session has returned and end_session
\* has not been called: the registered one and the microphone task's.
ActiveAdapters(s) ==
    (IF s \in DOMAIN services /\ services[s].started /\ ~services[s].ended
     THEN 1 ELSE 0)
    + (IF mic[s] = "started" THEN 1 ELSE 0)

\* C1: while every connect to a session so far came without a channel
\* request and nothing has been disconnected, the channels connect assigned
\* to its N clients, and the channels the registry holds, are exactly 1..N.
C1_PlainConnectsFillChannels ==
    \A s \in Sessions :
        hist[s].plain =>
            LET a == hist[s].assigned
            IN  /\ {a[i] : i \in 1 .. Len(a)} = 1 .. Len(a)
                /\ Values(GetDict(client_channels, s)) = 1 .. Len(a)
                /\ Cardinality(DOMAIN GetDict(client_channels, s)) = Len(a)

C1_Witness ==
    \E s \in Sessions : hist[s].plain /\ Len(hist[s].assigned) >= 2

\* C2: no two clients registered in the same session hold the same channel.
C2_ChannelsUnique ==
    \A s \in DOMAIN client_channels :
        \A a, b \in DOMAIN client_channels[s] :
            a # b => client_channels[s][a] # client_channels[s][b]

\* C3: connect never returns a client_id that is registered to another
\* client of the session at that moment.
C3_ClientIdFresh ==
    [][\A h \in Handlers :
          (pc[h] = "accepting" /\ pc'[h] # "accepting")
              => client_id'[h] \notin DOMAIN GetDict(active_connections, hs[h])]_vars

\* C4: when end-session has been requested twice on a session that has an
\* adapter, the requests have called the adapter's end_session once.
C4_EndSessionOnce ==
    \A s \in Sessions :
        hist[s].end_requests >= 2
            => calls[s].end_explicit + calls[s].end_api = 1

\* C5: once an end_session message has been processed for a session, no
\* connection close calls end_session from the cleanup path.
C5_NoCleanupAfterExplicitEnd ==
    [][\A s \in Sessions :
          hist[s].explicit_ended
              => calls'[s].end_cleanup = calls[s].end_cleanup]_vars

\* C6: a chunk id that resolves to a channel resolves to the same channel
\* after every step.
C6_ChunkMappingStable ==
    [][\A s \in Sessions :
          \A k \in DOMAIN GetDict(chunk_channel_map, s) :
              resolve_channel_for_chunk(chunk_channel_map', s, k)
                  = resolve_channel_for_chunk(chunk_channel_map, s, k)]_vars

\* C7: a connection that closes while another connection of its session is
\* open does not shut the session's adapter down.
C7_NoShutdownWhileOthersOpen ==
    [][\A h \in Handlers :
          (/\ IsOpen(h)
           /\ pc'[h] = "idle"
           /\ \E g \in Handlers \ {h} : IsOpen(g) /\ hs[g] = hs[h])
              => EndCalls(calls'[hs[h]]) = EndCalls(calls[hs[h]])]_vars

\* C8: a step of one connection's handler leaves every other open and
\* registered connection registered.
C8_OthersStayRegistered ==
    [][\A h, g \in Handlers :
          (/\ h # g
           /\ pc'[g] # pc[g]
           /\ IsOpen(h)
           /\ Registered(active_connections, h))
              => Registered(active_connections', h)]_vars

\* C9: a session never has two active upstream adapters.
C9_OneActiveAdapter ==
    \A s \in Sessions : ActiveAdapters(s) <= 1

\* C10: the step in which a session's backend RPC fails sends one more
\* "error" message to every registered client of the session and leaves the
\* session's status "error".
C10_BackendFailureBroadcast ==
    [][\A s \in Sessions :
          (~hist[s].backend_failed /\ hist'[s].backend_failed)
              => /\ transcription_sessions'[s].status = "error"
                 /\ \A h \in Handlers :
                        (hs[h] = s /\ Registered(active_connections, h))
                            => errors_received'[h] = errors_received[h] + 1]_vars

\* The message handler h read in this step (a step of h reading a message).
Reads(h) == message'[h].n = message[h].n + 1

\* The message carries no audio: the field is absent or empty under both
\* of its names.
NoAudio(m) == m.audio_data \in {Missing, ""} /\ m.audio_bytes \in {Missing, ""}

\* The message is not JSON, or its audio is not hex.
Malformed(m) ==
    \/ m.type = "<not json>"
    \/ /\ m.type = "audio_chunk"
       /\ \E a \in {m.audio_data, m.audio_bytes} : a \notin {Missing, ""} /\ ~IsHex(a)

\* C11: every chunk forwarded to a session's adapter carries the request the
\* adapter was started with.
C11_RequestStable ==
    [][\A s \in Sessions :
          forwarded'[s].count # forwarded[s].count
              => forwarded'[s].last.request = services[s].request]_vars

\* C17: an audio_chunk without audio is forwarded as a final chunk with empty
\* audio when it is final, and otherwise forwards nothing and leaves the
\* registry and the adapters as they were.
C17_EmptyChunk ==
    [][\A h \in Handlers :
          (Reads(h) /\ message'[h].last.type = "audio_chunk" /\ NoAudio(message'[h].last))
              => IF message'[h].last.is_final
                 THEN /\ forwarded'[hs[h]].count = forwarded[hs[h]].count + 1
                      /\ forwarded'[hs[h]].last.is_final
                      /\ forwarded'[hs[h]].last.audio_data = <<>>
                 ELSE /\ forwarded' = forwarded
                      /\ UNCHANGED <<registry, services>>]_vars

\* C18: a malformed message sends one error message to the socket it came
\* from and to no other, and its handler goes on receiving.
C18_MalformedMessage ==
    [][\A h \in Handlers :
          (Reads(h) /\ Malformed(message'[h].last))
              => /\ errors_received'[h] = errors_received[h] + 1
                 /\ \A g \in Handlers \ {h} : errors_received'[g] = errors_received[g]
                 /\ pc'[h] = "recv"]_vars

\* C20: when a handler has processed an end_session message, and when the
\* last client of a session has disconnected, the session's stored status is
\* "completed".
C20_StatusCompleted ==
    [][\A h \in Handlers :
          (/\ IsOpen(h) /\ pc'[h] = "idle"
           /\ \/ pc[h] = "broadcast"
              \/ ~has_active_clients(active_connections', hs[h]))
              => /\ hs[h] \in DOMAIN transcription_sessions'
                 /\ transcription_sessions'[hs[h]].status = "completed"]_vars

\* The connection completes its connect in this step.
Connects(h) == pc[h] = "accepting" /\ pc'[h] # "accepting"

\* C12: a connect without a requested channel is given, and registered with,
\* the smallest positive integer that no registered client of the session
\* holds; a connect with a requested channel is given that channel.
C12_SmallestUnusedChannel ==
    [][\A h \in Handlers :
          Connects(h)
              => LET used == Values(GetDict(client_channels, hs[h]))
                     got == client_channel'[h]
                 IN  /\ client_channels'[hs[h]][client_id'[h]] = got
                     /\ IF req[h] = None
                        THEN /\ got >= 1
                             /\ got \notin used
                             /\ \A c \in 1 .. got - 1 : c \in used
                        ELSE got = req[h]]_vars

\* a connect without a requested channel was given a channel below one in use
C12_Witness ==
    \E s \in Sessions : hist[s].filled_gap

\* The connection is open and registered under its own client_id.
SelfRegistered(h) ==
    IsOpen(h) /\ SocketOf(active_connections, hs[h], client_id[h]) = h

DisconnectFrame ==
    /\ session_results' = session_results
    /\ chunk_channel_map' = chunk_channel_map
    /\ transcription_sessions' = transcription_sessions
    /\ DOMAIN services' = DOMAIN services
    /\ \A s \in DOMAIN services :
           /\ services'[s].started = services[s].started
           /\ services'[s].request = services[s].request
           /\ calls'[s] = calls[s] => services'[s] = services[s]

\* C14: the disconnect of one client removes that client_id from the
\* session's connections and channels, the disconnect of a session removes
\* them all, and both leave the result log, the chunk map, the session
\* metadata and the adapter as they were.
C14_DisconnectFrame ==
    [][/\ \A h \in Handlers :
             (IsOpen(h) /\ pc'[h] = "idle")
                 => /\ GetDict(active_connections', hs[h])
                         = Pop(GetDict(active_connections, hs[h]), client_id[h])
                    /\ GetDict(client_channels', hs[h])
                         = Pop(GetDict(client_channels, hs[h]), client_id[h])
                    /\ DisconnectFrame
       /\ \A s \in Sessions :
             (/\ hist'[s].mic_starts # hist[s].mic_starts
              /\ mic'[s] = mic[s]
              /\ s \in DOMAIN transcription_sessions
              /\ transcription_sessions[s].status \in {"recording", "connected"})
                 => /\ s \notin DOMAIN active_connections'
                    /\ s \notin DOMAIN client_channels'
                    /\ DisconnectFrame]_vars

\* a disconnect in a session that had results and mapped chunks, which it
\* still has, with its adapter
C14_Witness ==
    \E s \in Sessions :
        /\ hist[s].left_data
        /\ HasData(s)
        /\ s \in DOMAIN services

\* the texts of the final entries of a log, in order
RECURSIVE FinalTexts(_)
FinalTexts(log) ==
    IF log = <<>> THEN <<>>
    ELSE (IF Head(log).is_final THEN <<Head(log).text>> ELSE <<>>)
         \o FinalTexts(Tail(log))

\* texts with a space between each two
Spaced(texts) ==
    [i \in 1 .. 2 * Len(texts) - 1 |->
        IF i % 2 = 1 THEN texts[(i + 1) \div 2] ELSE " "]

\* C15: the text transcript of a log with a final entry is the texts of its
\* final entries, in arrival order, joined.
C15_TranscriptOfFinals ==
    [][(/\ reply' # reply
        /\ reply'.format = "text"
        /\ reply'.session_id \in DOMAIN session_results
        /\ FinalTexts(session_results[reply'.session_id]) # <<>>)
           => /\ reply'.status = 200
              /\ reply'.transcript
                     = Spaced(FinalTexts(session_results[reply'.session_id]))]_vars

\* the transcript of a log with a partial entry between two final entries
\* of different texts
C15_Witness ==
    /\ reply.status = 200
    /\ reply.format = "text"
    /\ reply.session_id \in DOMAIN session_results
    /\ LET log == session_results[reply.session_id]
       IN  \E i, j, k \in 1 .. Len(log) :
               /\ i < j /\ j < k
               /\ log[i].is_final /\ ~log[j].is_final /\ log[k].is_final
               /\ log[i].text # log[k].text

\* the outcome of a transcript query: its status and content
Outcome(r) == [status |-> r.status, transcript |-> r.transcript, json |-> r.json]

\* C16: the transcript query for a session that exists never has the
\* outcome it has for a session that does not exist.
C16_NotFoundDistinct ==
    [][(reply' # reply /\ reply'.session_id \in DOMAIN session_results)
           => Outcome(reply')
                 # Outcome(transcript_endpoint(EmptyDict, reply'.session_id,
                                               reply'.format))]_vars

\* C19: while the connection set of a session is not changed by a connect
\* or a disconnect, a broadcast leaves every client registered and, once
\* its loop is over, has reached every registered socket but those its
\* send failed on.
C19_BroadcastFailureIsolated ==
    \A s \in Sessions :
        (bcast[s].active /\ bcast[s].intact)
            => /\ GetDict(active_connections, s) = bcast[s].start
               /\ Pending(s) = {}
                      => bcast[s].delivered = Values(bcast[s].start) \ bcast[s].failed

\* a broadcast whose loop is over, with a failed send and a delivery
C19_Witness ==
    \E s \in Sessions :
        /\ bcast[s].active /\ bcast[s].intact
        /\ Pending(s) = {}
        /\ bcast[s].failed # {}
        /\ bcast[s].delivered # {}

\* C21: a step that records a channel for a chunk id that a session's map
\* already holds leaves the channel stored for that chunk id as it was.
C21_ChunkMapWriteOnce ==
    [][\A s \in Sessions :
          \A k \in DOMAIN GetDict(chunk_channel_map, s) :
              k \in DOMAIN GetDict(chunk_channel_map', s)
                  => chunk_channel_map'[s][k] = chunk_channel_map[s][k]]_vars

\* the only client of a session has had two chunks recorded under one id
C21_Witness ==
    \E s \in Sessions :
        /\ connects = 1
        /\ forwarded[s].count = 2
        /\ Cardinality(DOMAIN GetDict(chunk_channel_map, s)) = 1

\* C22: every step leaves the entries a session's result log holds where
\* they are, so that the log only grows at its end.
C22_LogAppendOnly ==
    [][\A s \in DOMAIN session_results :
          /\ s \in DOMAIN session_results'
          /\ Len(session_results'[s]) >= Len(session_results[s])
          /\ SubSeq(session_results'[s], 1, Len(session_results[s]))
                 = session_results[s]]_vars

\* C23: no step decreases a session's processed-chunk counter.
C23_CounterMonotonic ==
    [][\A s \in DOMAIN transcription_sessions :
          /\ s \in DOMAIN transcription_sessions'
          /\ transcription_sessions'[s].chunks_processed
                 >= transcription_sessions[s].chunks_processed]_vars

\* C24: the step in which a handler reads a ping sends one pong to that
\* handler's socket, none to any other socket, and changes nothing in the
\* registry or the adapters.
C24_PingPong ==
    [][\A h \in Handlers :
          (Reads(h) /\ message'[h].last = PingMessage)
              => /\ pongs_received' = [pongs_received EXCEPT ![h] = @ + 1]
                 /\ UNCHANGED <<registry, services>>]_vars

\* What the registry holds for session s: its clients, channels, chunk
\* map, result log, metadata (with the status) and adapter.
SessionView(ac, cc, cm, ts, sr, sv, s) ==
    [clients |-> IF s \in DOMAIN ac THEN <<ac[s]>> ELSE <<>>,
     channels |-> IF s \in DOMAIN cc THEN <<cc[s]>> ELSE <<>>,
     chunks |-> IF s \in DOMAIN cm THEN <<cm[s]>> ELSE <<>>,
     info |-> IF s \in DOMAIN ts THEN <<ts[s]>> ELSE <<>>,
     log |-> IF s \in DOMAIN sr THEN <<sr[s]>> ELSE <<>>,
     adapter |-> IF s \in DOMAIN sv THEN <<sv[s]>> ELSE <<>>]

\* Step: every session but s is left as it was.
OthersUnchanged(s) ==
    \A x \in Sessions \ {s} :
        SessionView(active_connections', client_channels', chunk_channel_map',
                    transcription_sessions', session_results', services', x)
          = SessionView(active_connections, client_channels, chunk_channel_map,
                        transcription_sessions, session_results, services, x)

\* C25: a step of a connection's handler changes nothing of any session but
\* the handler's, and every step changes at most one session.
C25_SessionsIsolated ==
    [][/\ \A h \in Handlers :
             (pc'[h] # pc[h] \/ message'[h] # message[h])
                 => OthersUnchanged(IF hs[h] # "" THEN hs[h] ELSE hs'[h])
       /\ \E s \in Sessions : OthersUnchanged(s)]_vars

\* both sessions have an open client and an adapter, and one of them a
\* mapped chunk and a logged result, after a step in the other
C25_Witness ==
    /\ \A s \in Sessions :
           /\ s \in DOMAIN services
           /\ \E h \in Handlers : IsOpen(h) /\ hs[h] = s /\ Registered(active_connections, h)
    /\ \E s \in Sessions : HasData(s)

\* C26: whenever an audio chunk is forwarded to a session's adapter
\* (process_audio_chunk), that adapter's start_session has completed.
C26_StartedBeforeUse ==
    [][\A s \in Sessions :
          forwarded'[s].count > forwarded[s].count
              => s \in DOMAIN services /\ services[s].started]_vars

\* C27: a client that connects to a session gets an adapter that has not
\* been ended: an adapter on which end_session ran is no longer in the
\* registry, so the connect creates and starts a new one.
C27_NewAdapterAfterEnd ==
    [][\A h \in Handlers :
          (pc[h] = "accepting" /\ pc'[h] # "accepting")
              => /\ hs[h] \in DOMAIN services'
                 /\ ~services'[hs[h]].ended]_vars

\* C28: on every upstream stream the frames handed to the RPC hold at most
\* one configuration frame, which is the first frame and is there as soon
\* as the request generator has run; no audio frame is empty.
C28_ConfigOnceFirst ==
    LET configs == {i \in DOMAIN rpc.frames : rpc.frames[i].kind = "session_options"}
    IN  /\ configs \subseteq {1}
        /\ rpc.generator # "idle" => configs = {1}
        /\ rpc.generator = "idle" => rpc.frames = <<>>
        /\ \A i \in DOMAIN rpc.frames :
               rpc.frames[i].kind = "chunk" => rpc.frames[i].data # <<>>

\* The request generator ended after an empty and a non-empty chunk.
C28_Witness ==
    /\ rpc.generator = "done"
    /\ Len(rpc.frames) >= 2
    /\ rpc.audio > Len(rpc.frames) - 1

\* C29: after an RPC failure the last record yielded is the one error
\* record with the failure's code and details, no other record reports an
\* RPC error and the call does not go back to reading responses; without
\* streaming support the only record is the error record and no channel is
\* opened.
C29_OneErrorThenEnd ==
    LET n == Len(rpc.yielded)
    IN  /\ rpc.failure.kind = "rpc" =>
               /\ rpc.pc \in {"failed", "finally", "done"}
               /\ n >= 1
               /\ rpc.yielded[n].type = "error"
               /\ rpc.yielded[n].error = <<"gRPC error: ", rpc.failure.code>>
               /\ "details" \in DOMAIN rpc.yielded[n]
               /\ rpc.yielded[n].details = rpc.failure.details
               /\ \A i \in 1 .. n - 1 :
                      rpc.yielded[i].type = "error" => rpc.yielded[i] = ParseError
        /\ rpc.failure.kind = "unavailable" =>
               /\ rpc.pc \in {"early", "done"}
               /\ rpc.yielded = <<Unavailable>>
               /\ rpc.opened = 0
               /\ rpc.channel = "none"

\* The call ended on an RPC failure after it had yielded a result.
C29_Witness ==
    /\ rpc.pc = "done"
    /\ rpc.failure.kind = "rpc"
    /\ Len(rpc.yielded) >= 2
    /\ rpc.yielded[1].type = "final"

\* C30: close is called at most once and only on a channel that was
\* opened, and when the call has ended every opened channel was closed.
C30_ClosedExactlyOnce ==
    /\ rpc.closed <= rpc.opened
    /\ rpc.opened <= 1
    /\ rpc.channel = "none" => rpc.closed = 0
    /\ rpc.pc = "done" => rpc.closed = rpc.opened

\* The call ended on an exception that is not an RpcError, with its channel
\* opened and closed.
C30_Witness ==
    /\ rpc.pc = "done"
    /\ rpc.failure.kind = "other"
    /\ rpc.opened = 1
    /\ rpc.closed = 1

\* The non-blank texts of a section tagged with the section's name.
Tagged(type, alternatives) ==
    LET texts == SelectSeq(alternatives, LAMBDA text : text # " ")
    IN  [i \in 1 .. Len(texts) |-> [type |-> type, text |-> texts[i]]]

\* C31: the records of a response that is read without an exception are,
\* in order, one per alternative with a non-blank text of the partial, the
\* final and the final_refinement section, each with the section's name as
\* its type, and is_final is true exactly for final and final_refinement.
C31_RecordPerAlternative ==
    [][(rpc'.responses > rpc.responses /\ rpc'.response.raises = 0) =>
          LET response == rpc'.response
              records == rpc'.pending
              expected == Tagged("partial", response.partial)
                          \o Tagged("final", response.final)
                          \o Tagged("final_refinement", response.final_refinement)
          IN  /\ Len(records) = Len(expected)
              /\ \A i \in 1 .. Len(records) :
                     /\ records[i].type = expected[i].type
                     /\ records[i].text = expected[i].text
                     /\ records[i].is_final
                            <=> records[i].type \in {"final", "final_refinement"}]_vars

\* A response with a blank and a non-blank partial alternative and a final
\* one has been read and its two records were yielded.
C31_Witness ==
    /\ rpc.response.partial = <<" ", "t">>
    /\ rpc.response.final = <<"t">>
    /\ rpc.response.raises = 0
    /\ rpc.responses = 1
    /\ rpc.pending = <<>>
    /\ Len(rpc.yielded) = 2

\* C32: the rate of the session options, and of the configuration frame,
\* is the requested rate if that is 8000, 16000 or 48000 and 16000
\* otherwise; whatever the rate, a call with gRPC and credentials raises
\* nothing and yields no error record.
C32_SampleRateFallback ==
    LET rate == IF rpc.requested \in {8000, 16000, 48000}
                THEN rpc.requested ELSE 16000
    IN  /\ (rpc.pc # "idle" /\ rpc.failure.kind \notin {"unavailable", "auth"})
               => rpc.sample_rate = rate
        /\ \A i \in DOMAIN rpc.frames :
               rpc.frames[i].kind = "session_options"
                   => rpc.frames[i].sample_rate = rate
        /\ rpc.failure.kind \in {"none", "unavailable", "auth"}
        /\ rpc.failure.kind = "auth" => ~build_auth_metadata(rpc.settings).ok
        /\ rpc.failure.kind = "none" =>
               \A i \in DOMAIN rpc.yielded : rpc.yielded[i].type # "error"

\* A call with sample rate 44100 sent its configuration frame and yielded
\* a final result.
C32_Witness ==
    /\ rpc.requested = 44100
    /\ rpc.frames # <<>>
    /\ rpc.frames[1].sample_rate = 16000
    /\ rpc.yielded # <<>>
    /\ rpc.yielded[1].type = "final"
    /\ rpc.pc = "done"

\* C33: once the metadata is built it is the API key alone if one is
\* configured, and otherwise the bearer token followed by the folder id
\* header; the call fails with the authorization error, and opens no
\* channel, when neither an API key nor a token is configured.
C33_AuthMetadata ==
    LET key == rpc.settings.yandex_api_key
        token == rpc.settings.yandex_iam_token
        folder == rpc.settings.yandex_folder_id
    IN  /\ (rpc.pc # "idle" /\ rpc.failure.kind \notin {"unavailable", "auth"}) =>
               IF key # ""
               THEN rpc.metadata = <<Header("authorization", <<"Api-Key ", key>>)>>
               ELSE /\ token # ""
                    /\ Len(rpc.metadata) = 2
                    /\ rpc.metadata[1] = Header("authorization", <<"Bearer ", token>>)
                    /\ rpc.metadata[2].name = "x-folder-id"
                    /\ rpc.metadata[2].value # <<"">>
        /\ rpc.failure.kind = "auth" =>
               /\ key = "" /\ token = ""
               /\ rpc.yielded = <<AuthFailed>>
               /\ rpc.opened = 0

\* C34: the entry logged for a result without a provider speaker id has
\* the speaker channel_N when its chunk id is ch<N>-<rest> with a number N,
\* whatever the session's chunk-channel map holds; for any other chunk id
\* it has the speaker of the channel the map gives for the id, if any.
C34_PrefixBeforeMap ==
    [][\A s \in DOMAIN session_results :
          (s \in DOMAIN session_results'
           /\ Len(session_results'[s]) = Len(session_results[s]) + 1) =>
              LET entry == session_results'[s][Len(session_results'[s])]
                  id == entry.chunk_id
                  map == GetDict(chunk_channel_map, s)
                  prefixed == /\ Len(id) >= 3
                              /\ id[1] = "ch"
                              /\ id[3] = "-"
                              /\ id[2] >= 0
              IN  entry.speaker_id =
                      IF prefixed THEN <<"channel_", id[2]>>
                      ELSE IF id \in DOMAIN map THEN <<"channel_", map[id]>>
                      ELSE <<>>]_vars

\* The log holds an entry whose chunk id has the prefix of channel 2 and is
\* not in the session's map, and one whose prefix is not a number.
C34_Witness ==
    \E s \in DOMAIN session_results :
        \E i, j \in DOMAIN session_results[s] :
            /\ session_results[s][i].chunk_id = <<"ch", 2, "-", "a">>
            /\ session_results[s][i].speaker_id = <<"channel_", 2>>
            /\ session_results[s][i].chunk_id \notin DOMAIN GetDict(chunk_channel_map, s)
            /\ session_results[s][j].chunk_id = <<"ch", NotANumber, "-", "a">>
            /\ session_results[s][j].speaker_id = <<>>

\* C35: a chunk forwarded to a session's adapter never carries the chunk
\* id of the chunk forwarded to that adapter just before it.
C35_ChunkIdsUnique ==
    [][\A s \in Sessions :
          (forwarded[s].count >= 1 /\ forwarded'[s].count = forwarded[s].count + 1)
              => forwarded'[s].last.chunk_id # forwarded[s].last.chunk_id]_vars

\* C36: no audio chunk is forwarded to an adapter on which end_session has
\* been invoked.
C36_NoChunkAfterEnd ==
    [][\A s \in Sessions :
          forwarded'[s].count > forwarded[s].count
              => ~(s \in DOMAIN services /\ services[s].ended)]_vars

\* C37: when a broadcast's loop is over, every client that was registered
\* when it began and is still registered with the same socket has been
\* sent the message, unless the send to it failed.
C37_BroadcastReachesStayers ==
    [][\A s \in Sessions :
          (bcast[s].active /\ ~bcast'[s].active) =>
              \A cid \in DOMAIN bcast[s].start :
                  LET ws == bcast[s].start[cid]
                      now == GetDict(active_connections, s)
                  IN  (cid \in DOMAIN now /\ now[cid] = ws /\ ws \notin bcast[s].failed)
                          => ws \in bcast[s].delivered]_vars

\* C38: the step that begins a broadcast appends to the session's log the
\* entry with the chunk_id, text, is_final and speaker_id of the message
\* the broadcast sends, the message stays the same for as long as the
\* broadcast delivers, and nothing is delivered outside a broadcast; a step
\* that appends to a log begins the broadcast of that entry, so that a
\* result with blank text, for which no broadcast begins, is not appended.
C38_RecordBeforeBroadcast ==
    [][\A s \in Sessions :
          LET old == IF s \in DOMAIN session_results THEN session_results[s] ELSE <<>>
              new == IF s \in DOMAIN session_results' THEN session_results'[s] ELSE <<>>
              begins == ~bcast[s].active /\ bcast'[s].active
          IN  /\ begins => /\ new = Append(old, bcast'[s].payload)
                           /\ bcast'[s].payload.text \notin {"", " "}
              /\ Len(new) > Len(old) => begins
              /\ (bcast[s].active /\ bcast'[s].active)
                     => bcast'[s].payload = bcast[s].payload
              /\ bcast'[s].delivered # {} => bcast'[s].active]_vars

\* A broadcast has delivered its message to two clients, and the message is
\* the last entry of the session's log.
C38_Witness ==
    \E s \in DOMAIN session_results :
        /\ bcast[s].active
        /\ Cardinality(bcast[s].delivered) = 2
        /\ session_results[s] # <<>>
        /\ session_results[s][Len(session_results[s])] = bcast[s].payload

\* C39: no broadcast, of a transcription_result or of session_ended, reaches
\* the socket of a client whose handler has not yet sent its
\* connection_established, that is, of a registered client whose handler is
\* still suspended in start_session.
C39_AcknowledgedFirst ==
    [][/\ \A h \in Handlers :
             \A ws \in notice'[h].delivered \ notice[h].delivered :
                 pc[ws] # "starting"
       /\ \A s \in Sessions :
             \A ws \in bcast'[s].delivered \ bcast[s].delivered :
                 pc[ws] # "starting"]_vars

====
